---- MODULE Spec2Model ----
(***************************************************************************)
(* State-machine model of the network-serving runtime of hanuman:         *)
(*   - the epoll reactor of src/http_server.c (accept, read, process,      *)
(*     remove, idle sweep, stop),                                          *)
(*   - the Kafka consumer pool of src/kafka_client.c (register, start,     *)
(*     stop, one worker thread per registration),                          *)
(*   - the supervisor application_run of src/application.c with its        *)
(*     SIGINT/SIGTERM handler.                                             *)
(* The main thread is one sequential process whose position is pc; the     *)
(* signal handler runs on it between any two of its steps.                 *)
(***************************************************************************)
EXTENDS Integers, Sequences, FiniteSets, TLC

(* ------------------------------ bounds --------------------------------- *)
max_connections == 2     \* server->max_connections (1000 in http_server_create)
MaxArrivals == 3         \* client connections arriving during one run
MaxTicks == 1            \* clock steps of 61 seconds
SIZE_BITS == 3           \* modelled width of size_t
MaxConsumers == 2        \* registrations the client can hold
MaxOffset == 2           \* messages the broker holds per partition
MaxCalls == 4            \* API calls issued by the Kafka driver
MaxSignals == 1          \* SIGINT/SIGTERM deliveries

(* --------------------------- program constants ------------------------- *)
STDIN_FD == 0            \* value of a calloc'ed, never assigned socket field
LISTEN_FD == 3           \* socket() in http_server_start: lowest free fd
EPOLL_FD == 4            \* epoll_create1() in http_server_start
FIRST_CLIENT_FD == 5     \* first descriptor accept() can return
IDLE_TIMEOUT == 60       \* idle sweep threshold in http_server_run
TICK_SECONDS == 61       \* one clock step of the model

SIZE_MAX == 2^SIZE_BITS - 1
\* descriptors the kernel can hand to accept(): one more than the table holds
ClientFds == FIRST_CLIENT_FD .. (FIRST_CLIENT_FD + max_connections)
Slots == 0 .. (max_connections - 1)
Partitions == {"p0", "p1"}
ConsumerIds == 1 .. MaxConsumers

VARIABLES
  app,        \* APPLICATION: [running, http, kafka]
  g_app,      \* g_app != NULL
  pc,         \* position of the main thread
  loc,        \* locals of the main thread: [fd, i, ret, rv]
  srv,        \* HTTP_SERVER: [running, server_socket, epoll_fd, connection_count, allocated]
  conns,      \* server->connection_states[0 .. max_connections-1]
  open_fds,   \* descriptors open in the process
  ep,         \* descriptors registered with the epoll instance
  net,        \* per client descriptor: unread input and edge notification
  backlog,    \* connections completed by the kernel, not yet accepted
  events,     \* events returned by epoll_wait and not yet dispatched
  now,        \* time(NULL)
  budget,     \* connections that may still arrive
  life,       \* history of the connection that owns each client descriptor
  hist,       \* history of the run: closes, signals, stop order
  kc,         \* KAFKA_CLIENT: [running, consumers]
  wk,         \* worker thread of each registration
  broker,     \* next offset the broker hands out, per registration and partition
  klog,       \* handler invocations, per registration
  calls,      \* API calls the Kafka driver may still issue
  args,       \* arguments of the library call under study
  result,     \* what that call returned or produced
  routes,     \* server->routes[0 .. route_count-1], in registration order
  static,     \* server->static_enabled, static_url_path, static_directory, default_file
  response,   \* HTTP_RESPONSE: [status, status_message, headers, body_length]
  h2,         \* one connection seen byte by byte: the client's bytes, the socket, conn->buffer
  producer    \* client->producer (handle 0 is NULL) and the configuration copied into it

vars == <<app, g_app, pc, loc, srv, conns, open_fds, ep, net, backlog, events,
          now, budget, life, hist, kc, wk, broker, klog, calls, args, result,
          routes, static, response, h2, producer>>

\* the state of the library calls studied on their own
lib_vars == <<args, result, routes, static, response, h2, producer>>

Min(a, b) == IF a < b THEN a ELSE b

(* size_t arithmetic *)
SizeInc(c) == (c + 1) % (SIZE_MAX + 1)
SizeDec(c) == (c + SIZE_MAX) % (SIZE_MAX + 1)

(* calloc'ed CONNECTION_STATE *)
ZeroSlot == [socket |-> STDIN_FD, buf |-> "empty", is_http2 |-> FALSE, last_activity |-> 0]

\* locals of the main thread: fd (socket_fd / client_socket), i (sweep index),
\* k (index found by remove_connection), ci (conn pointer of handle_client_data),
\* ret (caller of remove_connection), tnow (now of the sweep), rv (return value),
\* ki (loop index of kafka_client_start / kafka_client_stop), kret (their caller),
\* call (the API call that returned rv)
NoLoc == [fd |-> -1, i |-> 0, k |-> 0, ci |-> 0, ret |-> "none", tnow |-> 0,
          rv |-> "none", ki |-> 0, kret |-> "none", call |-> "none"]

\* history of one accepted connection: request bytes arrived, handler runs,
\* response sent, and whether the handler ever ran out of order
NewLife == [arrived |-> FALSE, runs |-> 0, sent |-> FALSE, ordered |-> TRUE]

NoNet == [rx |-> "none", edge |-> FALSE]

InitHist == [bad_close |-> FALSE,      \* close() hit a descriptor that is no open client socket
             signals |-> 0,            \* SIGINT/SIGTERM delivered so far
             handler_closed |-> FALSE, \* the signal handler closed descriptors
             bad_join |-> FALSE,       \* pthread_join on a thread that was never created
             starts |-> << >>,         \* successful http_server_start / kafka_client_start, in order
             stops |-> << >>,          \* http_server_stop / kafka_client_stop taking effect, in order
             loop_exit |-> "none"]     \* how the event loop ended

(* ----------------------------- descriptors ----------------------------- *)
\* close() of every descriptor in S
NetClosed(S) == [f \in ClientFds |-> IF f \in S THEN NoNet ELSE net[f]]

\* close(fd) on something that is not an open client socket: EBADF on a socket
\* closed before, or a descriptor that belongs to somebody else (stdin)
BadClose(fd) == fd \notin (open_fds \cap ClientFds)

\* find_connection / the scan of remove_connection: first index below
\* connection_count whose socket is fd, -1 when there is none in the array
FindIdx(fd) ==
  LET n == Min(srv.connection_count, max_connections)
      hits == {i \in 0 .. (n - 1) : conns[i].socket = fd}
  IN IF hits = {} THEN -1 ELSE CHOOSE i \in hits : \A j \in hits : i <= j

\* the scan runs past the end of the array (connection_count > max_connections)
ScanOverrun(fd) == FindIdx(fd) = -1 /\ srv.connection_count > max_connections

\* what a read outside connection_states can yield
Garbage == {ZeroSlot} \cup {conns[j] : j \in Slots}

\* epoll_wait: the listening socket is level-triggered, clients edge-triggered
Ready ==
  (IF backlog > 0 /\ LISTEN_FD \in open_fds
     THEN {[fd |-> LISTEN_FD, ev |-> "in"]} ELSE {})
  \cup {[fd |-> f, ev |-> IF net[f].rx = "rst" THEN "hup" ELSE "in"] :
          f \in {g \in ep : net[g].edge}}

ReturnPc(ret) ==
  CASE ret = "events" -> "run_events"
    [] ret = "accept" -> "acc_accept"
    [] ret = "sweep"  -> "sweep"

\* how the buffer can look after recv appended bytes to it
Grow(b) ==
  CASE b = "empty"   -> {"partial", "full", "complete", "malformed", "preface"}
    [] b = "partial" -> {"partial", "full", "complete", "malformed", "preface"}
    [] OTHER         -> {b}

(* --------------------------- http_server_stop -------------------------- *)
\* the sockets http_server_stop closes, and whether one of them is closed twice
StopSockets == {conns[i].socket : i \in 0 .. (Min(srv.connection_count, max_connections) - 1)}

StopClosesTwice ==
  LET n == Min(srv.connection_count, max_connections)
  IN \/ \E i \in 0 .. (n - 1) : BadClose(conns[i].socket)
     \/ \E i, j \in 0 .. (n - 1) : i < j /\ conns[i].socket = conns[j].socket

\* fault: http_server_stop without its running check
http_server_stop_unguarded(h, who) ==
  /\ srv' = [srv EXCEPT !.running = 0,
                        !.connection_count = IF srv.allocated THEN 0 ELSE @,
                        !.epoll_fd = -1,
                        !.server_socket = -1]
  /\ open_fds' = (open_fds \ StopSockets) \ {srv.epoll_fd, srv.server_socket}
  /\ ep' = {}
  /\ net' = NetClosed(StopSockets)
  /\ backlog' = 0
  /\ hist' = [h EXCEPT !.bad_close = @ \/ (srv.allocated /\ StopClosesTwice),
                       !.stops = Append(@, who)]

\* http_server_stop(server), run to completion; h is the history to extend and
\* who the caller ("http" from application_run, "http_signal" from the handler)
http_server_stop(h, who) ==
  IF srv.running = 0
    THEN /\ UNCHANGED <<srv, open_fds, ep, net, backlog>>
         /\ hist' = h
    ELSE /\ srv' = [srv EXCEPT !.running = 0,
                               !.connection_count = IF srv.allocated THEN 0 ELSE @,
                               !.epoll_fd = -1,
                               !.server_socket = -1]
         /\ open_fds' = (open_fds \ StopSockets) \ {srv.epoll_fd, srv.server_socket}
         /\ ep' = {}
         /\ net' = NetClosed(StopSockets)
         /\ backlog' = 0
         /\ hist' = [h EXCEPT !.bad_close = @ \/ (srv.allocated /\ StopClosesTwice),
                              !.stops = Append(@, who)]

\* what no step of the reactor changes
outside_reactor == <<app, g_app, now, budget, kc, wk, broker, klog, calls, lib_vars>>

(* ----------------------------- http_server_run ------------------------- *)
\* entry of http_server_run: a server that is not running returns at once
run_entry ==
  /\ pc = "run_entry"
  /\ IF srv.running = 0
       THEN /\ pc' = "app_cleanup"
            /\ hist' = [hist EXCEPT !.loop_exit = "not_running"]
       ELSE /\ pc' = "run_while"
            /\ hist' = hist
  /\ UNCHANGED <<loc, srv, conns, open_fds, ep, net, backlog, events, life>>
  /\ UNCHANGED outside_reactor

\* while (server->running)
run_while ==
  /\ pc = "run_while"
  /\ IF srv.running = 1
       THEN /\ pc' = "run_wait"
            /\ hist' = hist
       ELSE /\ pc' = "app_cleanup"
            /\ hist' = [hist EXCEPT !.loop_exit = "stopped"]
  /\ UNCHANGED <<loc, srv, conns, open_fds, ep, net, backlog, events, life>>
  /\ UNCHANGED outside_reactor

\* epoll_wait returns the ready descriptors (none on timeout); on a closed epoll
\* descriptor it fails with EBADF, or with EINTR when the handler interrupted it
epoll_wait ==
  /\ pc = "run_wait"
  /\ IF srv.epoll_fd = -1
       THEN /\ \E e \in {"EBADF", "EINTR"} :
                 /\ pc' = IF e = "EINTR" THEN "run_while" ELSE "app_cleanup"
                 /\ hist' = IF e = "EINTR" THEN hist
                            ELSE [hist EXCEPT !.loop_exit = "error"]
            /\ UNCHANGED <<events, net>>
       ELSE /\ pc' = "run_events"
            /\ events' = Ready
            /\ net' = [f \in ClientFds |->
                         IF f \in ep THEN [net[f] EXCEPT !.edge = FALSE] ELSE net[f]]
            /\ hist' = hist
  /\ UNCHANGED <<loc, srv, conns, open_fds, ep, backlog, life>>
  /\ UNCHANGED outside_reactor

\* epoll_wait fails with an errno other than EINTR while the server runs:
\* the loop breaks on its own (lines 676-682)
epoll_wait_fails ==
  /\ pc = "run_wait"
  /\ srv.epoll_fd # -1
  /\ pc' = "app_cleanup"
  /\ hist' = [hist EXCEPT !.loop_exit = "error"]
  /\ UNCHANGED <<loc, srv, conns, open_fds, ep, net, backlog, events, life>>
  /\ UNCHANGED outside_reactor

\* for (i = 0; i < nfds; i++): dispatch one event, or go on to the idle sweep
run_events ==
  /\ pc = "run_events"
  /\ IF events = {}
       THEN /\ pc' = "sweep"
            /\ loc' = [NoLoc EXCEPT !.tnow = now]
            /\ events' = events
       ELSE \E e \in events :
            /\ events' = events \ {e}
            /\ IF e.fd = srv.server_socket
                 THEN /\ pc' = "acc_accept"
                      /\ loc' = NoLoc
                 ELSE IF e.ev = "hup"
                 THEN /\ pc' = "rm_find"
                      /\ loc' = [NoLoc EXCEPT !.fd = e.fd, !.ret = "events"]
                 ELSE /\ pc' = "hcd_find"
                      /\ loc' = [NoLoc EXCEPT !.fd = e.fd]
  /\ UNCHANGED <<srv, conns, open_fds, ep, net, backlog, life, hist>>
  /\ UNCHANGED outside_reactor

\* the idle sweep: for (i = 0; i < connection_count; )
sweep ==
  /\ pc = "sweep"
  /\ IF loc.i >= srv.connection_count
       THEN /\ pc' = "run_while"
            /\ loc' = NoLoc
       ELSE IF loc.i > max_connections - 1
       THEN \* connection_states[i] read outside the array
            \/ /\ pc' = "crashed"
               /\ loc' = NoLoc
            \/ /\ \E g \in Garbage :
                    IF loc.tnow - g.last_activity > IDLE_TIMEOUT
                      THEN /\ pc' = "rm_find"
                           /\ loc' = [loc EXCEPT !.fd = g.socket, !.ret = "sweep"]
                      ELSE /\ pc' = "sweep"
                           /\ loc' = [loc EXCEPT !.i = @ + 1]
       ELSE IF loc.tnow - conns[loc.i].last_activity > IDLE_TIMEOUT
       THEN /\ pc' = "rm_find"
            /\ loc' = [loc EXCEPT !.fd = conns[loc.i].socket, !.ret = "sweep"]
       ELSE /\ pc' = "sweep"
            /\ loc' = [loc EXCEPT !.i = @ + 1]
  /\ UNCHANGED <<srv, conns, open_fds, ep, net, backlog, events, life, hist>>
  /\ UNCHANGED outside_reactor

(* -------------------------- accept_new_connection ---------------------- *)
LowestFree == CHOOSE f \in ClientFds \ open_fds : \A g \in ClientFds \ open_fds : f <= g

\* accept(server_socket): EBADF on a closed listening socket, EAGAIN on an empty
\* queue, EMFILE without a free descriptor; otherwise the lowest free descriptor
accept_call ==
  /\ pc = "acc_accept"
  /\ IF srv.server_socket = -1 \/ backlog = 0 \/ ClientFds \ open_fds = {}
       THEN /\ pc' = "run_events"
            /\ loc' = NoLoc
            /\ UNCHANGED <<open_fds, backlog, net, life>>
       ELSE /\ pc' = "acc_add"
            /\ loc' = [NoLoc EXCEPT !.fd = LowestFree]
            /\ open_fds' = open_fds \cup {LowestFree}
            /\ backlog' = backlog - 1
            /\ net' = [net EXCEPT ![LowestFree] = NoNet]
            /\ life' = [life EXCEPT ![LowestFree] = NewLife]
  /\ UNCHANGED <<srv, conns, ep, events, hist>>
  /\ UNCHANGED outside_reactor

\* the guard of add_connection
TableFull == srv.connection_count >= max_connections

\* add_connection up to connection_count++; NULL (and close(client_socket) in
\* the caller) when the table is full or cannot be allocated
add_connection ==
  /\ pc = "acc_add"
  /\ \/ /\ TableFull
        /\ pc' = "acc_accept"
        /\ loc' = NoLoc
        /\ open_fds' = open_fds \ {loc.fd}
        /\ net' = NetClosed({loc.fd})
        /\ hist' = [hist EXCEPT !.bad_close = @ \/ BadClose(loc.fd)]
        /\ srv' = srv
     \/ /\ ~TableFull
        /\ ~srv.allocated
        /\ pc' = "acc_accept"
        /\ loc' = NoLoc
        /\ open_fds' = open_fds \ {loc.fd}
        /\ net' = NetClosed({loc.fd})
        /\ hist' = [hist EXCEPT !.bad_close = @ \/ BadClose(loc.fd)]
        /\ srv' = srv
     \/ /\ ~TableFull
        /\ pc' = "acc_init"
        /\ loc' = [loc EXCEPT !.ci = srv.connection_count]
        /\ srv' = [srv EXCEPT !.allocated = TRUE,
                              !.connection_count = SizeInc(@)]
        /\ UNCHANGED <<open_fds, net, hist>>
  /\ UNCHANGED <<conns, ep, backlog, events, life>>
  /\ UNCHANGED outside_reactor

\* add_connection after connection_count++: the fields of the new slot
add_connection_init ==
  /\ pc = "acc_init"
  /\ pc' = "acc_epoll"
  /\ conns' = [conns EXCEPT ![loc.ci] = [socket |-> loc.fd, buf |-> "empty",
                                         is_http2 |-> FALSE, last_activity |-> now]]
  /\ UNCHANGED <<loc, srv, open_fds, ep, net, backlog, events, life, hist>>
  /\ UNCHANGED outside_reactor

\* epoll_ctl(EPOLL_CTL_ADD); on failure remove_connection and continue
accept_register ==
  /\ pc = "acc_epoll"
  /\ IF srv.epoll_fd = -1 \/ loc.fd \notin open_fds
       THEN /\ pc' = "rm_find"
            /\ loc' = [NoLoc EXCEPT !.fd = loc.fd, !.ret = "accept"]
            /\ ep' = ep
       ELSE /\ pc' = "acc_accept"
            /\ loc' = NoLoc
            /\ ep' = ep \cup {loc.fd}
  /\ UNCHANGED <<srv, conns, open_fds, net, backlog, events, life, hist>>
  /\ UNCHANGED outside_reactor

(* ----------------------------- remove_connection ----------------------- *)
\* the scan and close(socket_fd)
remove_connection ==
  /\ pc = "rm_find"
  /\ IF FindIdx(loc.fd) >= 0
       THEN /\ pc' = "rm_shift"
            /\ loc' = [loc EXCEPT !.k = FindIdx(loc.fd)]
            /\ open_fds' = open_fds \ {loc.fd}
            /\ ep' = ep \ {loc.fd}
            /\ net' = NetClosed({loc.fd})
            /\ hist' = [hist EXCEPT !.bad_close = @ \/ BadClose(loc.fd)]
            /\ srv' = srv
       ELSE IF ScanOverrun(loc.fd)
       THEN \* the scan left the array: a fault, or a match in foreign memory
            \/ /\ pc' = "crashed"
               /\ loc' = NoLoc
               /\ UNCHANGED <<srv, open_fds, ep, net, hist>>
            \/ /\ pc' = ReturnPc(loc.ret)
               /\ loc' = IF loc.ret = "sweep" THEN [loc EXCEPT !.fd = -1, !.ret = "none"]
                                              ELSE NoLoc
               /\ open_fds' = open_fds \ {loc.fd}
               /\ ep' = ep \ {loc.fd}
               /\ net' = NetClosed({loc.fd})
               /\ hist' = [hist EXCEPT !.bad_close = @ \/ BadClose(loc.fd)]
               /\ srv' = [srv EXCEPT !.connection_count = SizeDec(@)]
       ELSE /\ pc' = ReturnPc(loc.ret)
            /\ loc' = IF loc.ret = "sweep" THEN [loc EXCEPT !.fd = -1, !.ret = "none"]
                                           ELSE NoLoc
            /\ UNCHANGED <<srv, open_fds, ep, net, hist>>
  /\ UNCHANGED <<conns, backlog, events, life>>
  /\ UNCHANGED outside_reactor

\* if (i < connection_count - 1) connection_states[i] = connection_states[count - 1]
remove_shift ==
  /\ pc = "rm_shift"
  /\ LET last == SizeDec(srv.connection_count)
     IN IF loc.k < last
          THEN IF last <= max_connections - 1
                 THEN /\ pc' = "rm_dec"
                      /\ conns' = [conns EXCEPT ![loc.k] = conns[last]]
                 ELSE \* the source slot lies outside the array
                      \/ /\ pc' = "crashed"
                         /\ conns' = conns
                      \/ /\ pc' = "rm_dec"
                         /\ \E g \in Garbage : conns' = [conns EXCEPT ![loc.k] = g]
          ELSE /\ pc' = "rm_dec"
               /\ conns' = conns
  /\ UNCHANGED <<loc, srv, open_fds, ep, net, backlog, events, life, hist>>
  /\ UNCHANGED outside_reactor

\* connection_count--
remove_decrement ==
  /\ pc = "rm_dec"
  /\ pc' = ReturnPc(loc.ret)
  /\ loc' = IF loc.ret = "sweep" THEN [loc EXCEPT !.fd = -1, !.ret = "none", !.k = 0]
                                 ELSE NoLoc
  /\ srv' = [srv EXCEPT !.connection_count = SizeDec(@)]
  /\ UNCHANGED <<conns, open_fds, ep, net, backlog, events, life, hist>>
  /\ UNCHANGED outside_reactor

(* ----------------------------- handle_client_data ---------------------- *)
\* conn = find_connection(server, client_socket)
find_connection ==
  /\ pc = "hcd_find"
  /\ IF FindIdx(loc.fd) >= 0
       THEN /\ pc' = "hcd_recv"
            /\ loc' = [loc EXCEPT !.ci = FindIdx(loc.fd)]
       ELSE IF ScanOverrun(loc.fd)
       THEN \E out \in {"crashed", "run_events"} :
              /\ pc' = out
              /\ loc' = NoLoc
       ELSE /\ pc' = "run_events"
            /\ loc' = NoLoc
  /\ UNCHANGED <<srv, conns, open_fds, ep, net, backlog, events, life, hist>>
  /\ UNCHANGED outside_reactor

\* recv into the tail of the buffer, buffer_used and last_activity
recv_data ==
  /\ pc = "hcd_recv"
  /\ IF loc.fd \notin open_fds \/ net[loc.fd].rx \in {"eof", "rst"}
       THEN \* EBADF, end of stream or reset: remove_connection
            /\ pc' = "rm_find"
            /\ loc' = [NoLoc EXCEPT !.fd = loc.fd, !.ret = "events"]
            /\ UNCHANGED <<conns, net, life>>
       ELSE IF net[loc.fd].rx = "none"
       THEN \* EAGAIN
            /\ pc' = "run_events"
            /\ loc' = NoLoc
            /\ UNCHANGED <<conns, net, life>>
       ELSE /\ pc' = "hcd_dispatch"
            /\ loc' = loc
            /\ \E b \in Grow(conns[loc.ci].buf) :
                 conns' = [conns EXCEPT ![loc.ci].buf = b,
                                        ![loc.ci].last_activity = now]
            /\ net' = [net EXCEPT ![loc.fd].rx =
                         IF @ = "data_eof" THEN "eof" ELSE "none"]
            /\ life' = [life EXCEPT ![loc.fd].arrived = TRUE]
  /\ UNCHANGED <<srv, open_fds, ep, backlog, events, hist>>
  /\ UNCHANGED outside_reactor

\* fault: a malformed request is handed on as if it had parsed
dispatch_data_lenient ==
  /\ pc = "hcd_dispatch"
  /\ LET c == conns[loc.ci]
     IN IF c.buf = "preface" /\ ~c.is_http2
          THEN /\ conns' = [conns EXCEPT ![loc.ci].is_http2 = TRUE]
               /\ pc' = "rm_find"
               /\ loc' = [NoLoc EXCEPT !.fd = loc.fd, !.ret = "events"]
          ELSE IF c.is_http2 \/ c.buf \in {"empty", "partial"}
          THEN /\ conns' = conns
               /\ pc' = "run_events"
               /\ loc' = NoLoc
          ELSE IF c.buf \in {"full"}
          THEN /\ conns' = conns
               /\ pc' = "rm_find"
               /\ loc' = [NoLoc EXCEPT !.fd = c.socket, !.ret = "events"]
          ELSE /\ conns' = conns
               /\ pc' = "php_handler"
               /\ loc' = loc
  /\ UNCHANGED <<srv, open_fds, ep, net, backlog, events, life, hist>>
  /\ UNCHANGED outside_reactor

\* the preface check of handle_client_data, then process_http_request up to the
\* parse: an incomplete request waits, a full buffer or a malformed request is
\* removed, a complete one goes to its handler
dispatch_data ==
  /\ pc = "hcd_dispatch"
  /\ LET c == conns[loc.ci]
     IN IF c.buf = "preface" /\ ~c.is_http2
          THEN /\ conns' = [conns EXCEPT ![loc.ci].is_http2 = TRUE]
               /\ pc' = "rm_find"
               /\ loc' = [NoLoc EXCEPT !.fd = loc.fd, !.ret = "events"]
          ELSE IF c.is_http2 \/ c.buf \in {"empty", "partial"}
          THEN /\ conns' = conns
               /\ pc' = "run_events"
               /\ loc' = NoLoc
          ELSE IF c.buf \in {"full", "malformed"}
          THEN /\ conns' = conns
               /\ pc' = "rm_find"
               /\ loc' = [NoLoc EXCEPT !.fd = c.socket, !.ret = "events"]
          ELSE /\ conns' = conns
               /\ pc' = "php_handler"
               /\ loc' = loc
  /\ UNCHANGED <<srv, open_fds, ep, net, backlog, events, life, hist>>
  /\ UNCHANGED outside_reactor

(* ---------------------------- process_http_request --------------------- *)
\* the matched route's handler, the static file server or the 404 fallback
invoke_handler ==
  /\ pc = "php_handler"
  /\ pc' = "php_send"
  /\ LET f == conns[loc.ci].socket
     IN life' = IF f \in ClientFds
                  THEN [life EXCEPT ![f].runs = Min(@ + 1, 2),
                                    ![f].ordered = @ /\ life[f].arrived /\ ~life[f].sent]
                  ELSE life
  /\ UNCHANGED <<loc, srv, conns, open_fds, ep, net, backlog, events, hist>>
  /\ UNCHANGED outside_reactor

\* build_http_response and send(conn->socket, ...)
send_response ==
  /\ pc = "php_send"
  /\ pc' = "php_rm"
  /\ LET f == conns[loc.ci].socket
     IN life' = IF f \in open_fds \cap ClientFds
                  THEN [life EXCEPT ![f].sent = TRUE]
                  ELSE life
  /\ UNCHANGED <<loc, srv, conns, open_fds, ep, net, backlog, events, hist>>
  /\ UNCHANGED outside_reactor

\* remove_connection(server, conn->socket) closing process_http_request
finish_request ==
  /\ pc = "php_rm"
  /\ pc' = "rm_find"
  /\ loc' = [NoLoc EXCEPT !.fd = conns[loc.ci].socket, !.ret = "events"]
  /\ UNCHANGED <<srv, conns, open_fds, ep, net, backlog, events, life, hist>>
  /\ UNCHANGED outside_reactor

(* -------------------------------- clients ------------------------------ *)
\* a client completes a TCP connection to the listening socket
client_connect ==
  /\ budget > 0
  /\ LISTEN_FD \in open_fds
  /\ backlog' = backlog + 1
  /\ budget' = budget - 1
  /\ UNCHANGED <<app, g_app, pc, loc, srv, conns, open_fds, ep, net, events, now,
                 life, lib_vars, hist, kc, wk, broker, klog, calls>>

\* the peer of an accepted connection sends bytes, closes or resets
client_io ==
  \E f \in open_fds \cap ClientFds : \E what \in {"data", "fin", "rst"} :
    /\ net[f].rx \in {"none", "data"}
    /\ net' = [net EXCEPT ![f] =
                 [rx |-> CASE what = "data" -> "data"
                           [] what = "fin" -> IF net[f].rx = "data" THEN "data_eof" ELSE "eof"
                           [] what = "rst" -> "rst",
                  edge |-> TRUE]]
    /\ UNCHANGED <<app, g_app, pc, loc, srv, conns, open_fds, ep, backlog, events, now,
                   budget, life, lib_vars, hist, kc, wk, broker, klog, calls>>

\* the clock advances
tick ==
  /\ now < MaxTicks * TICK_SECONDS
  /\ now' = now + TICK_SECONDS
  /\ UNCHANGED <<app, g_app, pc, loc, srv, conns, open_fds, ep, net, backlog, events,
                 budget, life, lib_vars, hist, kc, wk, broker, klog, calls>>

(* -------------------------- application_signal_handler ----------------- *)
\* SIGINT / SIGTERM: g_app->running = 0 and http_server_stop(g_app->http_server)
application_signal_handler ==
  /\ g_app
  /\ pc \notin {"crashed", "app_done"}
  /\ hist.signals < MaxSignals
  /\ app' = [app EXCEPT !.running = 0]
  /\ LET h == [hist EXCEPT !.signals = @ + 1,
                           !.handler_closed = @ \/ (app.http /\ srv.running = 1)]
     IN IF app.http
          THEN http_server_stop(h, "http_signal")
          ELSE /\ hist' = h
               /\ UNCHANGED <<srv, open_fds, ep, net, backlog>>
  /\ UNCHANGED <<g_app, pc, loc, conns, events, now, budget, life, lib_vars, kc, wk, broker,
                 klog, calls>>

(* ------------------------------ application_run ------------------------ *)
\* the configuration check, g_app = app and the two signal() calls
application_run ==
  /\ pc = "app_entry"
  /\ IF ~app.http /\ ~app.kafka
       THEN /\ pc' = "app_done"
            /\ loc' = [NoLoc EXCEPT !.rv = "INVALID"]
            /\ g_app' = g_app
       ELSE /\ pc' = "app_set_running"
            /\ loc' = NoLoc
            /\ g_app' = TRUE
  /\ UNCHANGED <<app, srv, conns, open_fds, ep, net, backlog, events, now, budget,
                 life, lib_vars, hist, kc, wk, broker, klog, calls>>

\* app->running = 1
application_set_running ==
  /\ pc = "app_set_running"
  /\ pc' = "app_start_http"
  /\ app' = [app EXCEPT !.running = 1]
  /\ UNCHANGED <<g_app, loc, srv, conns, open_fds, ep, net, backlog, events, now,
                 budget, life, lib_vars, hist, kc, wk, broker, klog, calls>>

\* http_server_start: socket, bind, listen, epoll_create1, epoll_ctl, running = 1;
\* any failing call closes what was opened and application_run returns
http_server_start ==
  /\ pc = "app_start_http"
  /\ IF ~app.http
       THEN /\ pc' = "app_start_kafka"
            /\ UNCHANGED <<app, loc, srv, open_fds, hist>>
       ELSE \/ /\ pc' = "app_start_kafka"
               /\ srv' = [srv EXCEPT !.running = 1,
                                     !.server_socket = LISTEN_FD,
                                     !.epoll_fd = EPOLL_FD]
               /\ open_fds' = open_fds \cup {LISTEN_FD, EPOLL_FD}
               /\ hist' = [hist EXCEPT !.starts = Append(@, "http")]
               /\ UNCHANGED <<app, loc>>
            \/ /\ pc' = "app_done"
               /\ srv' = [srv EXCEPT !.server_socket = LISTEN_FD]
               /\ app' = [app EXCEPT !.running = 0]
               /\ loc' = [NoLoc EXCEPT !.rv = "STATE"]
               /\ UNCHANGED <<open_fds, hist>>
  /\ UNCHANGED <<g_app, conns, ep, net, backlog, events, now, budget, life, lib_vars, kc, wk,
                 broker, klog, calls>>

\* fault: application_run enters the event loop without starting the Kafka client
application_skip_kafka ==
  /\ pc = "app_start_kafka"
  /\ pc' = "app_loop"
  /\ loc' = NoLoc
  /\ UNCHANGED <<app, g_app, srv, conns, open_fds, ep, net, backlog, events, now,
                 budget, life, lib_vars, hist, kc, wk, broker, klog, calls>>

\* if (app->kafka_client) kafka_client_start(...)
application_start_kafka ==
  /\ pc = "app_start_kafka"
  /\ IF app.kafka
       THEN /\ pc' = "ks_entry"
            /\ loc' = [NoLoc EXCEPT !.kret = "app"]
       ELSE /\ pc' = "app_loop"
            /\ loc' = NoLoc
  /\ UNCHANGED <<app, g_app, srv, conns, open_fds, ep, net, backlog, events, now,
                 budget, life, lib_vars, hist, kc, wk, broker, klog, calls>>

\* kafka_client_start failed: running = 0, http_server_stop, return
application_kafka_failed ==
  /\ pc = "app_kfail"
  /\ pc' = "app_done"
  /\ loc' = [NoLoc EXCEPT !.rv = "STATE"]
  /\ app' = [app EXCEPT !.running = 0]
  /\ IF app.http
       THEN http_server_stop(hist, "http")
       ELSE UNCHANGED <<srv, open_fds, ep, net, backlog, hist>>
  /\ UNCHANGED <<g_app, conns, events, now, budget, life, lib_vars, kc, wk, broker, klog, calls>>

\* the main event loop: http_server_run when a server is bound, else the sleep loop
application_loop ==
  /\ pc = "app_loop"
  /\ pc' = IF app.http THEN "run_entry" ELSE "app_sleep"
  /\ UNCHANGED <<app, g_app, loc, srv, conns, open_fds, ep, net, backlog, events, now,
                 budget, life, lib_vars, hist, kc, wk, broker, klog, calls>>

\* while (app->running) sleep(1): left once the flag is cleared
application_sleep ==
  /\ pc = "app_sleep"
  /\ app.running = 0
  /\ pc' = "app_cleanup"
  /\ hist' = [hist EXCEPT !.loop_exit = "stopped"]
  /\ UNCHANGED <<app, g_app, loc, srv, conns, open_fds, ep, net, backlog, events, now,
                 budget, life, lib_vars, kc, wk, broker, klog, calls>>

\* fault: the cleanup stops the HTTP server before the Kafka client
application_cleanup_http_first ==
  /\ pc = "app_cleanup"
  /\ IF app.kafka
       THEN /\ pc' = "kstop_entry"
            /\ loc' = [NoLoc EXCEPT !.kret = "cleanup"]
       ELSE /\ pc' = "app_cleanup_http"
            /\ loc' = NoLoc
  /\ IF app.http /\ app.kafka
       THEN http_server_stop(hist, "http")
       ELSE UNCHANGED <<srv, open_fds, ep, net, backlog, hist>>
  /\ UNCHANGED <<app, g_app, conns, events, now, budget, life, lib_vars, kc, wk, broker, klog,
                 calls>>

\* cleanup: kafka_client_stop first
application_cleanup ==
  /\ pc = "app_cleanup"
  /\ IF app.kafka
       THEN /\ pc' = "kstop_entry"
            /\ loc' = [NoLoc EXCEPT !.kret = "cleanup"]
       ELSE /\ pc' = "app_cleanup_http"
            /\ loc' = NoLoc
  /\ UNCHANGED <<app, g_app, srv, conns, open_fds, ep, net, backlog, events, now,
                 budget, life, lib_vars, hist, kc, wk, broker, klog, calls>>

\* cleanup: http_server_stop, app->running = 0, g_app = NULL, return
application_cleanup_http ==
  /\ pc = "app_cleanup_http"
  /\ pc' = "app_done"
  /\ loc' = [NoLoc EXCEPT !.rv = "SUCCESS"]
  /\ app' = [app EXCEPT !.running = 0]
  /\ g_app' = FALSE
  /\ IF app.http
       THEN http_server_stop(hist, "http")
       ELSE UNCHANGED <<srv, open_fds, ep, net, backlog, hist>>
  /\ UNCHANGED <<conns, events, now, budget, life, lib_vars, kc, wk, broker, klog, calls>>

(* ------------------------------- kafka client -------------------------- *)
\* calloc'ed KAFKA_CONSUMER; handler and user_data identify the registration
\* that supplied them (registration i passes handler i and user-data i)
NewConsumer == [running |-> 0, thread |-> "unset", handler |-> 0, user_data |-> 0,
                topics |-> << >>, freed |-> FALSE]
Registration(i) ==
  [NewConsumer EXCEPT !.handler = i, !.user_data = i, !.topics = <<"t0", "t1">>]
\* ev is what the worker's last rd_kafka_consumer_poll returned
IdleWorker == [pc |-> "none", part |-> "p0", off |-> 0, fn |-> 0, arg |-> 0, topic |-> "",
               ev |-> "none"]
\* polls that return no message to handle: NULL after the timeout, the
\* end-of-partition event, any other error event
EmptyPolls == {"timeout", "RD_KAFKA_RESP_ERR__PARTITION_EOF", "error"}
\* rd_kafka_topic_name(rkmsg->rkt): each partition of the model belongs to its
\* own topic of the subscribed set
rd_kafka_topic_name(p) == IF p = "p0" THEN "t0" ELSE "t1"
NewLog == [active |-> 0, done |-> [p \in Partitions |-> 0], ordered |-> TRUE]
consumer_count == Len(kc.consumers)

\* where kafka_client_start / kafka_client_stop return to
KReturn(kret, rv) ==
  CASE kret = "app"     -> IF rv = "SUCCESS" THEN "app_loop" ELSE "app_kfail"
    [] kret = "cleanup" -> "app_cleanup_http"
    [] kret = "drv"     -> "drv"
    [] kret = "destroy" -> "kd_loop"

KReturnLoc(kret, call, rv) ==
  IF kret = "drv" THEN [NoLoc EXCEPT !.call = call, !.rv = rv]
  ELSE IF kret = "destroy" THEN [NoLoc EXCEPT !.call = "destroy", !.rv = rv]
  ELSE NoLoc

\* kafka_client_start: the running check and client->running = 1
kafka_client_start ==
  /\ pc = "ks_entry"
  /\ IF kc.running = 1
       THEN /\ pc' = KReturn(loc.kret, "STATE")
            /\ loc' = KReturnLoc(loc.kret, "start", "STATE")
            /\ kc' = kc
       ELSE /\ pc' = "ks_loop"
            /\ loc' = [loc EXCEPT !.ki = 1]
            /\ kc' = [kc EXCEPT !.running = 1]
  /\ UNCHANGED <<app, g_app, srv, conns, open_fds, ep, net, backlog, events, now,
                 budget, life, lib_vars, hist, wk, broker, klog, calls>>

\* one round of the start loop: consumer->running = 1 and pthread_create, which
\* can fail; the failure path returns with client->running still set
consumer_spawn ==
  /\ pc = "ks_loop"
  /\ IF loc.ki > consumer_count
       THEN /\ pc' = KReturn(loc.kret, "SUCCESS")
            /\ loc' = KReturnLoc(loc.kret, "start", "SUCCESS")
            /\ hist' = [hist EXCEPT !.starts = Append(@, "kafka")]
            /\ UNCHANGED <<kc, wk>>
       ELSE \/ /\ pc' = "ks_loop"
               /\ loc' = [loc EXCEPT !.ki = @ + 1]
               /\ kc' = [kc EXCEPT !.consumers[loc.ki] = [@ EXCEPT !.running = 1, !.thread = "live"]]
               /\ wk' = [wk EXCEPT ![loc.ki] = [IdleWorker EXCEPT !.pc = "top"]]
               /\ hist' = hist
            \/ /\ pc' = KReturn(loc.kret, "INVALID")
               /\ loc' = KReturnLoc(loc.kret, "start", "INVALID")
               /\ kc' = [kc EXCEPT !.consumers[loc.ki].running = 0]
               /\ UNCHANGED <<wk, hist>>
  /\ UNCHANGED <<app, g_app, srv, conns, open_fds, ep, net, backlog, events, now,
                 budget, life, lib_vars, broker, klog, calls>>

\* kafka_client_stop: the running check and client->running = 0
kafka_client_stop ==
  /\ pc = "kstop_entry"
  /\ IF kc.running = 0
       THEN /\ pc' = KReturn(loc.kret, "STATE")
            /\ loc' = KReturnLoc(loc.kret, "stop", "STATE")
            /\ UNCHANGED <<kc, hist>>
       ELSE /\ pc' = "kstop_loop"
            /\ loc' = [loc EXCEPT !.ki = 1]
            /\ kc' = [kc EXCEPT !.running = 0]
            /\ hist' = [hist EXCEPT !.stops = Append(@, "kafka")]
  /\ UNCHANGED <<app, g_app, srv, conns, open_fds, ep, net, backlog, events, now,
                 budget, life, lib_vars, wk, broker, klog, calls>>

\* fault: the stop loop cancels the worker thread instead of clearing its flag
consumer_cancel ==
  /\ pc = "kstop_loop"
  /\ IF loc.ki > consumer_count
       THEN /\ pc' = KReturn(loc.kret, "SUCCESS")
            /\ loc' = KReturnLoc(loc.kret, "stop", "SUCCESS")
            /\ UNCHANGED <<kc, wk>>
       ELSE /\ pc' = "kstop_join"
            /\ loc' = loc
            /\ kc' = [kc EXCEPT !.consumers[loc.ki].running = 0]
            /\ wk' = [wk EXCEPT ![loc.ki].pc = IF @ = "none" THEN "none" ELSE "exited"]
  /\ UNCHANGED <<app, g_app, srv, conns, open_fds, ep, net, backlog, events, now,
                 budget, life, lib_vars, hist, broker, klog, calls>>

\* one round of the stop loop: consumer->running = 0
consumer_stop ==
  /\ pc = "kstop_loop"
  /\ IF loc.ki > consumer_count
       THEN /\ pc' = KReturn(loc.kret, "SUCCESS")
            /\ loc' = KReturnLoc(loc.kret, "stop", "SUCCESS")
            /\ kc' = kc
       ELSE /\ pc' = "kstop_join"
            /\ loc' = loc
            /\ kc' = [kc EXCEPT !.consumers[loc.ki].running = 0]
  /\ UNCHANGED <<app, g_app, srv, conns, open_fds, ep, net, backlog, events, now,
                 budget, life, lib_vars, hist, wk, broker, klog, calls>>

\* fault: the stop loop does not wait for the worker (a detach instead of a join)
consumer_detach ==
  /\ pc = "kstop_join"
  /\ pc' = "kstop_loop"
  /\ loc' = [loc EXCEPT !.ki = @ + 1]
  /\ kc' = [kc EXCEPT !.consumers[loc.ki].thread = "joined"]
  /\ UNCHANGED <<app, g_app, srv, conns, open_fds, ep, net, backlog, events, now,
                 budget, life, lib_vars, hist, wk, broker, klog, calls>>

\* pthread_join(consumer->thread): waits for a live worker to exit; on a thread
\* that was never created, or was joined before, the behaviour is undefined
consumer_join ==
  /\ pc = "kstop_join"
  /\ IF kc.consumers[loc.ki].thread = "live"
       THEN /\ wk[loc.ki].pc = "exited"
            /\ pc' = "kstop_loop"
            /\ loc' = [loc EXCEPT !.ki = @ + 1]
            /\ kc' = [kc EXCEPT !.consumers[loc.ki].thread = "joined"]
            /\ hist' = hist
       ELSE /\ \E out \in {"crashed", "kstop_loop"} :
                 /\ pc' = out
                 /\ loc' = IF out = "crashed" THEN NoLoc ELSE [loc EXCEPT !.ki = @ + 1]
            /\ kc' = kc
            /\ hist' = [hist EXCEPT !.bad_join = TRUE]
  /\ UNCHANGED <<app, g_app, srv, conns, open_fds, ep, net, backlog, events, now,
                 budget, life, lib_vars, wk, broker, klog, calls>>

(* ----------------------------- consumer_thread_fn ---------------------- *)
\* fault: the worker polls for the next message while its handler is still running
consumer_thread_reentrant(i) ==
  /\ pc # "crashed"
  /\ wk[i].pc \in {"top", "handler"}
  /\ wk' = [wk EXCEPT ![i].pc = IF kc.consumers[i].running = 1 THEN "poll" ELSE "exited",
                       ![i].ev = "none"]
  /\ UNCHANGED <<app, g_app, pc, loc, srv, conns, open_fds, ep, net, backlog, events,
                 now, budget, life, lib_vars, hist, kc, broker, klog, calls>>

\* fault: the worker does not look at its running flag
consumer_thread_deaf(i) ==
  /\ pc # "crashed"
  /\ wk[i].pc = "top"
  /\ wk' = [wk EXCEPT ![i].pc = "poll", ![i].ev = "none"]
  /\ UNCHANGED <<app, g_app, pc, loc, srv, conns, open_fds, ep, net, backlog, events,
                 now, budget, life, lib_vars, hist, kc, broker, klog, calls>>

\* while (consumer->running)
consumer_thread_fn(i) ==
  /\ pc # "crashed"
  /\ wk[i].pc = "top"
  /\ wk' = [wk EXCEPT ![i].pc = IF kc.consumers[i].running = 1 THEN "poll" ELSE "exited",
                       ![i].ev = "none"]
  /\ UNCHANGED <<app, g_app, pc, loc, srv, conns, open_fds, ep, net, backlog, events,
                 now, budget, life, lib_vars, hist, kc, broker, klog, calls>>

\* fault: every worker dispatches to the handler and user-data of the first
\* registration
consumer_poll_first(i) ==
  /\ pc # "crashed"
  /\ wk[i].pc = "poll"
  /\ \/ /\ \E ev \in EmptyPolls : wk' = [wk EXCEPT ![i].pc = "top", ![i].ev = ev]
        /\ UNCHANGED <<broker, klog>>
     \/ \E p \in Partitions :
        /\ broker[i][p] < MaxOffset
        /\ wk' = [wk EXCEPT ![i] = [pc |-> "handler", part |-> p, off |-> broker[i][p],
                                    fn |-> kc.consumers[1].handler,
                                    arg |-> kc.consumers[1].user_data,
                                    topic |-> rd_kafka_topic_name(p),
                                    ev |-> "message"]]
        /\ broker' = [broker EXCEPT ![i][p] = @ + 1]
        /\ klog' = [klog EXCEPT ![i].active = @ + 1,
                                ![i].ordered = @ /\ klog[i].done[p] = broker[i][p]]
  /\ UNCHANGED <<app, g_app, pc, loc, srv, conns, open_fds, ep, net, backlog, events,
                 now, budget, life, lib_vars, hist, kc, calls>>

\* fault: an error event is handed to the handler like a message
consumer_poll_errors(i) ==
  /\ pc # "crashed"
  /\ wk[i].pc = "poll"
  /\ \/ /\ \E ev \in EmptyPolls \ {"error"} : wk' = [wk EXCEPT ![i].pc = "top", ![i].ev = ev]
        /\ UNCHANGED <<broker, klog>>
     \/ /\ wk' = [wk EXCEPT ![i].pc = "handler", ![i].ev = "error"]
        /\ klog' = [klog EXCEPT ![i].active = @ + 1]
        /\ UNCHANGED broker
     \/ \E p \in Partitions :
        /\ broker[i][p] < MaxOffset
        /\ wk' = [wk EXCEPT ![i] = [pc |-> "handler", part |-> p, off |-> broker[i][p],
                                    fn |-> kc.consumers[i].handler,
                                    arg |-> kc.consumers[i].user_data,
                                    topic |-> rd_kafka_topic_name(p),
                                    ev |-> "message"]]
        /\ broker' = [broker EXCEPT ![i][p] = @ + 1]
        /\ klog' = [klog EXCEPT ![i].active = @ + 1,
                                ![i].ordered = @ /\ klog[i].done[p] = broker[i][p]]
  /\ UNCHANGED <<app, g_app, pc, loc, srv, conns, open_fds, ep, net, backlog, events,
                 now, budget, life, lib_vars, hist, kc, calls>>

\* rd_kafka_consumer_poll: a timeout or an error event goes back to the loop
\* test; a message is handed to consumer->handler with message.topic taken
\* from the message and consumer->user_data
consumer_poll(i) ==
  /\ pc # "crashed"
  /\ wk[i].pc = "poll"
  /\ \/ /\ \E ev \in EmptyPolls : wk' = [wk EXCEPT ![i].pc = "top", ![i].ev = ev]
        /\ UNCHANGED <<broker, klog>>
     \/ \E p \in Partitions :
        /\ broker[i][p] < MaxOffset
        /\ wk' = [wk EXCEPT ![i] = [pc |-> "handler", part |-> p, off |-> broker[i][p],
                                    fn |-> kc.consumers[i].handler,
                                    arg |-> kc.consumers[i].user_data,
                                    topic |-> rd_kafka_topic_name(p),
                                    ev |-> "message"]]
        /\ broker' = [broker EXCEPT ![i][p] = @ + 1]
        /\ klog' = [klog EXCEPT ![i].active = @ + 1,
                                ![i].ordered = @ /\ klog[i].done[p] = broker[i][p]]
  /\ UNCHANGED <<app, g_app, pc, loc, srv, conns, open_fds, ep, net, backlog, events,
                 now, budget, life, lib_vars, hist, kc, calls>>

\* consumer->handler(&message, user_data) returns; rd_kafka_message_destroy
handler_return(i) ==
  /\ pc # "crashed"
  /\ wk[i].pc = "handler"
  /\ wk' = [wk EXCEPT ![i] = [IdleWorker EXCEPT !.pc = "top"]]
  /\ klog' = [klog EXCEPT ![i].active = @ - 1,
                          ![i].done[wk[i].part] = @ + 1]
  /\ UNCHANGED <<app, g_app, pc, loc, srv, conns, open_fds, ep, net, backlog, events,
                 now, budget, life, lib_vars, hist, kc, broker, calls>>

(* ------------------------------ API driver ----------------------------- *)
\* kafka_consumer_register / kafka_consumer_register_multi: appends a
\* registration, or fails on a bad configuration and leaves the list alone
kafka_consumer_register ==
  /\ pc = "drv"
  /\ calls > 0
  /\ calls' = calls - 1
  /\ \/ /\ consumer_count < MaxConsumers
        /\ kc' = [kc EXCEPT !.consumers = Append(@, Registration(consumer_count + 1))]
        /\ loc' = [NoLoc EXCEPT !.call = "register", !.rv = "SUCCESS"]
     \/ /\ kc' = kc
        /\ loc' = [NoLoc EXCEPT !.call = "register", !.rv = "INVALID"]
  /\ UNCHANGED <<app, g_app, pc, srv, conns, open_fds, ep, net, backlog, events, now,
                 budget, life, lib_vars, hist, wk, broker, klog>>

\* the caller invokes kafka_client_start or kafka_client_stop
call_client ==
  /\ pc = "drv"
  /\ calls > 0
  /\ calls' = calls - 1
  /\ \E entry \in {"ks_entry", "kstop_entry"} :
       /\ pc' = entry
       /\ loc' = [NoLoc EXCEPT !.kret = "drv"]
  /\ UNCHANGED <<app, g_app, srv, conns, open_fds, ep, net, backlog, events, now,
                 budget, life, lib_vars, hist, kc, wk, broker, klog>>

(* ------------------------------ specifications ------------------------- *)
InitServer == [running |-> 0, server_socket |-> -1, epoll_fd |-> -1,
               connection_count |-> 0, allocated |-> FALSE]

\* what application_create, http_server_create and kafka_client_create leave
InitCommon ==
  /\ g_app = FALSE
  /\ loc = NoLoc
  /\ srv = InitServer
  /\ conns = [i \in Slots |-> ZeroSlot]
  /\ open_fds = {STDIN_FD}
  /\ ep = {}
  /\ net = [f \in ClientFds |-> NoNet]
  /\ backlog = 0
  /\ events = {}
  /\ now = 0
  /\ life = [f \in ClientFds |-> NewLife]
  /\ hist = InitHist
  /\ wk = [i \in ConsumerIds |-> IdleWorker]
  /\ broker = [i \in ConsumerIds |-> [p \in Partitions |-> 0]]
  /\ klog = [i \in ConsumerIds |-> NewLog]
  /\ args = << >>
  /\ result = << >>
  /\ routes = << >>
  /\ static = [enabled |-> FALSE, url_path |-> << >>, directory |-> << >>,
               default_file |-> <<"i", "n", "d", "e", "x", ".", "h", "t", "m", "l">>]
  /\ response = << >>
  /\ h2 = << >>
  /\ producer = [handle |-> 0, config |-> "none"]

\* the deployments of application_run: what is bound to the application, the
\* registrations made before the run, the connections that will arrive
Deployments ==
  {[http |-> TRUE,  kafka |-> FALSE, consumers |-> 0, arrivals |-> MaxArrivals],
   [http |-> FALSE, kafka |-> TRUE,  consumers |-> MaxConsumers, arrivals |-> 0],
   [http |-> TRUE,  kafka |-> TRUE,  consumers |-> 1, arrivals |-> 1],
   [http |-> FALSE, kafka |-> FALSE, consumers |-> 0, arrivals |-> 0]}

Init ==
  /\ InitCommon
  /\ pc = "app_entry"
  /\ calls = 0
  /\ \E d \in Deployments :
       /\ app = [running |-> 0, http |-> d.http, kafka |-> d.kafka]
       /\ kc = [running |-> 0, consumers |-> [i \in 1 .. d.consumers |-> Registration(i)]]
       /\ budget = d.arrivals

Worker ==
  \E i \in 1 .. consumer_count :
    \/ consumer_thread_fn(i)
    \/ consumer_poll(i)
    \/ handler_return(i)

Reactor ==
  \/ run_entry \/ run_while \/ epoll_wait \/ epoll_wait_fails \/ run_events \/ sweep
  \/ accept_call \/ add_connection \/ add_connection_init \/ accept_register
  \/ remove_connection \/ remove_shift \/ remove_decrement
  \/ find_connection \/ recv_data \/ dispatch_data
  \/ invoke_handler \/ send_response \/ finish_request

KafkaClient ==
  \/ kafka_client_start \/ consumer_spawn
  \/ kafka_client_stop \/ consumer_stop \/ consumer_join

Supervisor ==
  \/ application_run \/ application_set_running \/ http_server_start
  \/ application_start_kafka \/ application_kafka_failed \/ application_loop
  \/ application_sleep \/ application_cleanup \/ application_cleanup_http

Environment == client_connect \/ client_io \/ tick

Next == Supervisor \/ Reactor \/ KafkaClient \/ Worker \/ Environment
        \/ application_signal_handler

Spec == Init /\ [][Next]_vars

\* the Kafka client driven through its API by an arbitrary caller
InitKafka ==
  /\ InitCommon
  /\ pc = "drv"
  /\ calls = MaxCalls
  /\ app = [running |-> 0, http |-> FALSE, kafka |-> TRUE]
  /\ kc = [running |-> 0, consumers |-> << >>]
  /\ budget = 0

NextKafka == kafka_consumer_register \/ call_client \/ KafkaClient \/ Worker

SpecKafka == InitKafka /\ [][NextKafka]_vars

\* application_run under a fair scheduler: the main thread and every worker
\* thread keep taking steps while they can; clients, the clock and signals are
\* under no obligation
FairDeployments ==
  {[http |-> TRUE,  kafka |-> FALSE, consumers |-> 0, arrivals |-> 1],
   [http |-> FALSE, kafka |-> TRUE,  consumers |-> 1, arrivals |-> 0],
   [http |-> TRUE,  kafka |-> TRUE,  consumers |-> 1, arrivals |-> 0]}

FairInit ==
  /\ InitCommon
  /\ pc = "app_entry"
  /\ calls = 0
  /\ \E d \in FairDeployments :
       /\ app = [running |-> 0, http |-> d.http, kafka |-> d.kafka]
       /\ kc = [running |-> 0, consumers |-> [i \in 1 .. d.consumers |-> Registration(i)]]
       /\ budget = d.arrivals

MainThread == Supervisor \/ Reactor \/ KafkaClient

FairSpec ==
  /\ FairInit
  /\ [][Next]_vars
  /\ WF_vars(MainThread)
  /\ \A i \in ConsumerIds :
       WF_vars(consumer_thread_fn(i) \/ consumer_poll(i) \/ handler_return(i))

(* -------------------------------- properties --------------------------- *)
ReactorPcs == {"run_entry", "run_while", "run_wait", "run_events", "sweep",
               "acc_accept", "acc_add", "acc_init", "acc_epoll",
               "rm_find", "rm_shift", "rm_dec",
               "hcd_find", "hcd_recv", "hcd_dispatch",
               "php_handler", "php_send", "php_rm"}

Both == app.http /\ app.kafka

IsPrefix(s, t) == Len(s) <= Len(t) /\ \A i \in 1 .. Len(s) : s[i] = t[i]

\* C2: if SIGINT or SIGTERM is delivered at any moment after application_run
\* installed its handler, in any of the modes server-only, Kafka-only and both,
\* then application_run eventually returns with the HTTP server stopped and
\* every Kafka worker joined.
SignalLeadsToReturn ==
  (hist.signals > 0) ~>
     (/\ pc = "app_done"
      /\ srv.running = 0
      /\ \A i \in 1 .. consumer_count : kc.consumers[i].thread # "live")

\* the sockets the connection table tracks
Tracked == {conns[i].socket : i \in 0 .. (Min(srv.connection_count, max_connections) - 1)}

\* C1: in every reachable state of the reactor, under any interleaving of
\* accept, read, processing, hang-up, idle sweep and stop, connection_count
\* never exceeds max_connections, and a connection accepted while the table is
\* full is never tracked.
ConnectionBound ==
  /\ srv.connection_count <= max_connections
  /\ (pc = "acc_add" /\ TableFull => loc.fd \notin Tracked)

\* C5: the signal handler only sets flags: it closes no descriptor and leaves
\* the connection table alone, so no socket is closed twice, connection_count
\* is never decremented below zero, and between reactor steps it equals the
\* number of open tracked sockets.
SignalHandlerSetsFlagsOnly ==
  /\ ~hist.handler_closed
  /\ ~hist.bad_close
  /\ SizeInc(srv.connection_count) # 0
  /\ (pc \in {"run_while", "run_wait", "run_events"} =>
        srv.connection_count = Cardinality(Tracked \cap open_fds))

\* C6: for every HTTP/1.1 connection the handler (or the static/404 fallback)
\* runs at most once, after request bytes arrived and before the response is
\* written, and once the response is sent and the reactor step is over the
\* connection is no longer tracked and its socket is closed.
ExchangeOnce ==
  \A f \in ClientFds :
    /\ life[f].runs <= 1
    /\ life[f].ordered
    /\ (life[f].sent /\ pc \notin {"php_rm", "rm_find", "rm_shift", "rm_dec", "acc_init"} =>
          f \notin open_fds /\ f \notin Tracked)

\* C3 (as the code has it): with both an HTTP server and a Kafka client bound,
\* http_server_start runs first and kafka_client_start second, and
\* kafka_client_start has returned with every worker spawned before
\* http_server_run is entered: no connection is accepted or served while the
\* Kafka workers are not yet running.
StartOrder ==
  Both =>
    /\ IsPrefix(hist.starts, <<"http", "kafka">>)
    /\ (pc \in ReactorPcs =>
          /\ hist.starts = <<"http", "kafka">>
          /\ \A i \in 1 .. consumer_count : kc.consumers[i].thread # "unset")
    /\ (hist.starts # <<"http", "kafka">> => open_fds \cap ClientFds = {})

\* a request is being handled while both are bound and the Kafka workers run
StartOrderWitness ==
  /\ Both
  /\ pc = "php_handler"
  /\ hist.starts = <<"http", "kafka">>
  /\ \E i \in 1 .. consumer_count : wk[i].pc \in {"top", "poll", "handler"}

\* C3: with both bound the Kafka client is started before the HTTP server, so
\* the listening socket is never open while the Kafka workers are not yet running.
KafkaStartsFirst ==
  Both =>
    /\ IsPrefix(hist.starts, <<"kafka", "http">>)
    /\ (LISTEN_FD \in open_fds => IsPrefix(<<"kafka">>, hist.starts))

\* C4 (as the code has it): with both bound, the HTTP server is stopped before
\* the Kafka workers are told to stop only when the signal handler stopped it;
\* when the server loop terminates on its own (epoll_wait failing), the cleanup
\* tells the Kafka workers to stop and joins them first and stops the HTTP
\* server afterwards; a successful return has stopped both.
StopOrder ==
  Both =>
    /\ \/ IsPrefix(hist.stops, <<"http_signal", "kafka">>)
       \/ IsPrefix(hist.stops, <<"kafka", "http">>)
       \/ IsPrefix(hist.stops, <<"kafka", "http_signal">>)
       \/ hist.stops = <<"http">>
    /\ (IsPrefix(<<"kafka">>, hist.stops) => hist.loop_exit = "error")
    /\ (IsPrefix(<<"http_signal">>, hist.stops) => hist.signals > 0)
    /\ (pc = "app_done" /\ loc.rv = "SUCCESS" => Len(hist.stops) = 2)

\* the loop ended on its own and application_run returned: Kafka first, HTTP second
StopOrderWitness ==
  /\ Both
  /\ pc = "app_done"
  /\ hist.signals = 0
  /\ hist.stops = <<"kafka", "http">>

\* C4: with both bound, whether the loop ends by a signal or on its own, the
\* HTTP server is stopped before the Kafka workers are told to stop.
HttpStopsFirst ==
  Both /\ (\E k \in 1 .. Len(hist.stops) : hist.stops[k] = "kafka") =>
    hist.stops[1] \in {"http", "http_signal"}

\* C7: when kafka_client_stop has returned success, every worker has exited and
\* been joined and the running flag is cleared on the client and on every
\* registration: no handler invocation is in progress, and none starts until
\* the client is started again.
StopJoinsAll ==
  (kc.running = 0 /\ pc \notin {"kstop_loop", "kstop_join", "crashed"}) =>
    \A i \in 1 .. consumer_count :
      /\ kc.consumers[i].running = 0
      /\ kc.consumers[i].thread # "live"
      /\ wk[i].pc \in {"none", "exited"}
      /\ klog[i].active = 0

\* kafka_client_stop returned success after a worker had handled a message
StopJoinsAllWitness ==
  /\ pc = "drv"
  /\ loc.call = "stop"
  /\ loc.rv = "SUCCESS"
  /\ \E i \in 1 .. consumer_count :
       /\ kc.consumers[i].thread = "joined"
       /\ \E p \in Partitions : klog[i].done[p] > 0

\* C8: for any sequence of register, start and stop calls, whenever the client
\* is marked running every registration it holds has a spawned worker, and
\* kafka_client_stop joins only workers that were spawned.
OneWorkerPerRegistration ==
  /\ (kc.running = 1 /\ pc # "ks_loop" =>
        \A i \in 1 .. consumer_count : kc.consumers[i].thread = "live")
  /\ ~hist.bad_join

\* C9: kafka_client_stop never interrupts a handler: an invocation that has
\* begun ends only by returning, and no step takes the caller out of
\* kafka_client_stop while a worker is inside its handler.
StopIsCooperative ==
  [][/\ \A i \in ConsumerIds :
          wk[i].pc = "handler" =>
            \/ wk'[i] = wk[i]
            \/ wk'[i].pc = "top" /\ klog'[i].active = klog[i].active - 1
     /\ (pc \in {"kstop_entry", "kstop_loop", "kstop_join"}
         /\ pc' \notin {"kstop_entry", "kstop_loop", "kstop_join"} =>
           \A i \in ConsumerIds : wk'[i].pc # "handler")]_vars

\* kafka_client_stop is waiting in pthread_join for a worker inside its handler
StopIsCooperativeWitness ==
  /\ pc = "kstop_join"
  /\ wk[loc.ki].pc = "handler"
  /\ kc.consumers[loc.ki].running = 0

\* C10: a worker handles the messages of one partition in offset order, each
\* invocation completing before the next begins, and never has two handler
\* invocations in progress at once.
HandlerOrder ==
  \A i \in ConsumerIds :
    /\ klog[i].ordered
    /\ klog[i].active <= 1
    /\ (wk[i].pc = "handler" => klog[i].done[wk[i].part] = wk[i].off)

\* a worker is handling the second message of a partition after the first completed
HandlerOrderWitness ==
  \E i \in ConsumerIds :
    /\ wk[i].pc = "handler"
    /\ wk[i].off = 1
    /\ klog[i].done[wk[i].part] = 1

(* ------------------------------ repeated stop --------------------------- *)
\* application_run in its small deployments together with the Kafka client
\* driven through its API: every way a stop can follow a stop
InitStop == FairInit \/ InitKafka

NextStop == Next \/ kafka_consumer_register \/ call_client

SpecStop == InitStop /\ [][NextStop]_vars

\* C11: a stop that follows a stop changes nothing: http_server_stop on a
\* stopped server (from the cleanup of application_run after the signal handler,
\* or from the handler again) leaves the server, its descriptors and the
\* connection table alone and closes nothing a second time; kafka_client_stop
\* on a stopped client leaves the client and its workers alone and joins nothing.
StopIsIdempotent ==
  [][/\ (srv.running = 0 /\ (\/ pc = "app_cleanup_http" /\ pc' = "app_done"
                             \/ pc = "app_kfail" /\ pc' = "app_done"
                             \/ hist'.signals # hist.signals) =>
           /\ UNCHANGED <<srv, conns, open_fds, ep, net, backlog>>
           /\ hist'.stops = hist.stops
           /\ hist'.bad_close = hist.bad_close)
     /\ (kc.running = 0 /\ pc = "kstop_entry" /\ pc' # pc =>
           /\ UNCHANGED <<kc, wk, klog>>
           /\ hist'.stops = hist.stops
           /\ hist'.bad_join = hist.bad_join
           /\ pc' \notin {"kstop_loop", "kstop_join"})]_vars

\* the cleanup of application_run has called http_server_stop after the signal
\* handler had stopped a server with a tracked connection
StopIsIdempotentWitness ==
  /\ pc = "app_done"
  /\ loc.rv = "SUCCESS"
  /\ app.http
  /\ srv.allocated
  /\ hist.stops # << >>
  /\ hist.stops[1] = "http_signal"

(* ------------------------- library calls on their own ------------------- *)
\* everything the library calls studied on their own leave alone
not_lib == <<app, g_app, loc, srv, conns, open_fds, ep, net, backlog, events,
             now, budget, life, hist, kc, wk, broker, klog, calls>>

\* a created application with a created server and client, nothing running
InitLib ==
  /\ InitCommon
  /\ calls = 0
  /\ app = [running |-> 0, http |-> TRUE, kafka |-> TRUE]
  /\ kc = [running |-> 0, consumers |-> << >>]
  /\ budget = 0

(* ------------------------------ http_route.c ---------------------------- *)
\* C strings are sequences of one-character strings
MaxRoutes == 2
MaxPathLen == 4
NAME_SIZE == 128
VALUE_SIZE == 512

PathChars == {"/", "a", "b"}
Paths == UNION {[1 .. n -> PathChars] : n \in 0 .. MaxPathLen}
\* HTTP_METHOD values a route can be registered with
Methods == {"GET", "UNKNOWN"}
\* method tokens of a request line
MethodTokens == {<<"G", "E", "T">>, <<"B", "R", "E", "W">>}
http_method_from_string(token) ==
  CASE token = <<"G", "E", "T">> -> "GET"
    [] token = <<"P", "O", "S", "T">> -> "POST"
    [] token = <<"P", "U", "T">> -> "PUT"
    [] token = <<"D", "E", "L", "E", "T", "E">> -> "DELETE"
    [] token = <<"P", "A", "T", "C", "H">> -> "PATCH"
    [] token = <<"H", "E", "A", "D">> -> "HEAD"
    [] token = <<"O", "P", "T", "I", "O", "N", "S">> -> "OPTIONS"
    [] OTHER -> "UNKNOWN"
RoutePatterns ==
  { <<"/", "a">>,
    <<"/", ":", "a">>,
    <<"/", ":", "a", "/", "b">>,
    <<"/", ":", "a", "/", ":", "b">> }

\* strchr(s, c): index of the first c in s, 0 for NULL
strchr(s, c) ==
  IF \E i \in 1 .. Len(s) : s[i] = c
    THEN CHOOSE i \in 1 .. Len(s) : s[i] = c /\ \A j \in 1 .. i - 1 : s[j] # c
    ELSE 0

\* ptr += n
Advance(s, n) == SubSeq(s, n + 1, Len(s))

\* if (*ptr == '/') ptr++
SkipSlash(s) == IF s # << >> /\ s[1] = "/" THEN Tail(s) ELSE s

\* pattern_len / path_len: length of the segment ptr stands on
SegmentLen(s) == IF strchr(s, "/") = 0 THEN Len(s) ELSE strchr(s, "/") - 1

\* strncpy into a buffer of `size` bytes, as the extraction does it
Truncate(s, size) == SubSeq(s, 1, Min(Len(s), size - 1))

http_route_create(method, path) == [method |-> method, path |-> path]

\* the while loop of http_route_matches and its final test
RECURSIVE match_segments(_, _)
match_segments(pattern_ptr, path_ptr) ==
  IF pattern_ptr = << >> \/ path_ptr = << >>
    THEN pattern_ptr = << >> /\ path_ptr = << >>
    ELSE LET pattern_len == SegmentLen(pattern_ptr)
             path_len == SegmentLen(path_ptr)
         IN  IF /\ pattern_ptr[1] # ":"
                /\ \/ pattern_len # path_len
                   \/ SubSeq(pattern_ptr, 1, pattern_len) # SubSeq(path_ptr, 1, pattern_len)
               THEN FALSE
               ELSE match_segments(SkipSlash(Advance(pattern_ptr, pattern_len)),
                                   SkipSlash(Advance(path_ptr, path_len)))

http_route_matches(route, method, path) ==
  IF route.method # method THEN FALSE
  ELSE IF route.path = path THEN TRUE
  ELSE IF strchr(route.path, ":") = 0 THEN FALSE
  ELSE match_segments(SkipSlash(route.path), SkipSlash(path))

\* the while loop of http_route_extract_params: the parameters it adds
RECURSIVE extract_segments(_, _)
extract_segments(pattern_ptr, path_ptr) ==
  IF pattern_ptr = << >> \/ path_ptr = << >>
    THEN << >>
    ELSE LET pattern_len == SegmentLen(pattern_ptr)
             path_len == SegmentLen(path_ptr)
             rest == extract_segments(SkipSlash(Advance(pattern_ptr, pattern_len)),
                                      SkipSlash(Advance(path_ptr, path_len)))
         IN  IF pattern_ptr[1] = ":"
               THEN <<[name  |-> Truncate(SubSeq(pattern_ptr, 2, pattern_len), NAME_SIZE),
                       value |-> Truncate(SubSeq(path_ptr, 1, path_len), VALUE_SIZE)]>>
                    \o rest
               ELSE rest

\* an extraction that binds the pattern's own segment text
http_route_extract_pattern(route, path) ==
  LET ps == extract_segments(SkipSlash(route.path), SkipSlash(route.path))
  IN  [k \in 1 .. Len(ps) |-> [name |-> ps[k].name, value |-> ps[k].name]]

http_route_extract_params(route, path) ==
  extract_segments(SkipSlash(route.path), SkipSlash(path))

\* a route loop without the break: the last matching route is kept
route_loop_no_break(rs, method, path) ==
  LET hits == {i \in 1 .. Len(rs) : http_route_matches(rs[i], method, path)}
  IN  IF hits = {} THEN 0 ELSE CHOOSE i \in hits : \A j \in hits : j <= i

\* the route loop of process_http_request: index of matched_route, 0 for NULL
RECURSIVE route_loop_from(_, _, _, _)
route_loop_from(rs, method, path, i) ==
  IF i > Len(rs) THEN 0
  ELSE IF http_route_matches(rs[i], method, path) THEN i
  ELSE route_loop_from(rs, method, path, i + 1)

route_loop(rs, method, path) == route_loop_from(rs, method, path, 1)

\* http_server_add_route before the server runs
http_server_add_route ==
  /\ pc \in {"route_reg", "serve"}
  /\ Len(routes) < MaxRoutes
  /\ \E method \in Methods, path \in RoutePatterns :
       routes' = Append(routes, http_route_create(method, path))
  /\ UNCHANGED <<pc, args, result, static, response, h2, producer>>
  /\ UNCHANGED not_lib

\* process_http_request from the route loop to the handler's call, for a parsed
\* request: which handler ran, the request's path parameters, and whether the
\* static file server was asked instead
match_route ==
  /\ pc = "route_reg"
  /\ \E token \in MethodTokens, path \in Paths :
       LET method == http_method_from_string(token)
           m == route_loop(routes, method, path)
       IN  /\ args' = [token |-> token, method |-> method, path |-> path]
           /\ result' = [matched_route |-> m,
                         handler |-> m,
                         path_params |-> IF m = 0 THEN << >>
                                         ELSE http_route_extract_params(routes[m], path),
                         static |-> (m = 0),
                         matches |-> [i \in 1 .. Len(routes) |->
                                        http_route_matches(routes[i], method, path)]]
  /\ pc' = "route_done"
  /\ UNCHANGED <<routes, static, response, h2, producer>>
  /\ UNCHANGED not_lib

InitRoute == InitLib /\ pc = "route_reg"
NextRoute == http_server_add_route \/ match_route
SpecRoute == InitRoute /\ [][NextRoute]_vars

\* C12: the handler invoked for a request is that of the first route, in
\* registration order, that http_route_matches accepts; no later matching route
\* is chosen and no handler is invoked when no route matches.
FirstMatchWins ==
  pc = "route_done" =>
    LET hit(i) == http_route_matches(routes[i], args.method, args.path)
    IN  /\ result.handler \in 0 .. Len(routes)
        /\ result.handler # 0 =>
             /\ hit(result.handler)
             /\ \A j \in 1 .. result.handler - 1 : ~hit(j)
        /\ result.handler = 0 => \A j \in 1 .. Len(routes) : ~hit(j)

\* a request that two registered routes accept was routed
FirstMatchWinsWitness ==
  /\ pc = "route_done"
  /\ Len(routes) = 2
  /\ result.matches[1] /\ result.matches[2]
  /\ routes[1] # routes[2]
  /\ result.handler = 1

\* the segments of a string between its '/' characters
RECURSIVE Split(_)
Split(s) ==
  IF strchr(s, "/") = 0 THEN <<s>>
  ELSE <<SubSeq(s, 1, strchr(s, "/") - 1)>> \o Split(Advance(s, strchr(s, "/")))

IsParam(seg) == seg # << >> /\ seg[1] = ":"

\* the match as stated: equal methods, equally many segments after one leading
\* '/' is stripped, literals byte-equal, a parameter facing a non-empty segment
SegmentwiseMatch(route, method, path) ==
  LET ps == Split(SkipSlash(route.path))
      qs == Split(SkipSlash(path))
  IN  /\ route.method = method
      /\ Len(ps) = Len(qs)
      /\ \A k \in 1 .. Len(ps) :
           IF IsParam(ps[k]) THEN qs[k] # << >> ELSE ps[k] = qs[k]

\* C13: http_route_matches is true exactly when the methods are equal and,
\* after one leading '/' is stripped from both, pattern and path have the same
\* number of segments, each literal segment is byte-equal and each ':name'
\* segment faces exactly one non-empty path segment.
MatchesIsSegmentwise ==
  pc = "route_done" =>
    \A i \in 1 .. Len(routes) :
      result.matches[i] = SegmentwiseMatch(routes[i], args.method, args.path)

\* C14: for a matched route the path parameters are exactly the bindings
\* name -> segment text of the pattern's ':name' segments, in pattern order;
\* they are empty when no route matched.
ParamIndices(ps) == {k \in 1 .. Len(ps) : IsParam(ps[k])}

RECURSIVE Ascending(_)
Ascending(S) ==
  IF S = {} THEN << >>
  ELSE LET m == CHOOSE x \in S : \A y \in S : x <= y
       IN  <<m>> \o Ascending(S \ {m})

MaxUrlLen == 4
FILE_PATH_SIZE == 1024

UrlChars == {"/", ".", "a"}
Urls == UNION {[1 .. n -> UrlChars] : n \in 0 .. MaxUrlLen}
StaticUrlPaths == { <<"/">>, <<"/", "a">> }
StaticDirectories == { <<".", "/", "a">>, <<".", ".", "/", "a">> }
FileOutcomes == {"missing", "regular", "too_large"}

\* strstr(s, sub) != NULL
strstr(s, sub) ==
  \E i \in 1 .. Len(s) - Len(sub) + 1 : SubSeq(s, i, i + Len(sub) - 1) = sub

\* http_server_add_static_path
http_server_add_static_path ==
  /\ pc \in {"static", "serve"}
  /\ ~static.enabled
  /\ \E u \in StaticUrlPaths, d \in StaticDirectories :
       static' = [static EXCEPT !.enabled = TRUE, !.url_path = u, !.directory = d]
  /\ UNCHANGED <<pc, args, result, routes, response, h2, producer>>
  /\ UNCHANGED not_lib

\* the path serve_static_file hands to strstr and fopen
file_path_of(server, url_path) ==
  LET relative_path == SkipSlash(Advance(url_path, Len(server.url_path)))
  IN  Truncate(IF relative_path = << >> \/ relative_path[Len(relative_path)] = "/"
                 THEN server.directory \o <<"/">> \o relative_path \o server.default_file
                 ELSE server.directory \o <<"/">> \o relative_path,
               FILE_PATH_SIZE)

\* a static file server that opens whatever path it resolved
serve_static_file_unchecked(server, url_path, outcome) ==
  IF ~server.enabled \/ ~IsPrefix(server.url_path, url_path)
    THEN [ret |-> -1, status |-> 200, file_path |-> << >>, fopen |-> << >>]
    ELSE [ret |-> 0,
          status |-> CASE outcome = "missing" -> 404
                       [] outcome = "too_large" -> 500
                       [] OTHER -> 200,
          file_path |-> file_path_of(server, url_path),
          fopen |-> <<file_path_of(server, url_path)>>]

\* serve_static_file: its return value, the status it sets, the path it
\* resolved and the paths it passed to fopen; `outcome` is what the filesystem
\* holds at that path
serve_static_file(server, url_path, outcome) ==
  IF ~server.enabled THEN [ret |-> -1, status |-> 200, file_path |-> << >>, fopen |-> << >>]
  ELSE IF ~IsPrefix(server.url_path, url_path)
    THEN [ret |-> -1, status |-> 200, file_path |-> << >>, fopen |-> << >>]
  ELSE LET file_path == file_path_of(server, url_path)
       IN  IF strstr(file_path, <<".", ".">>)
             THEN [ret |-> 0, status |-> 403, file_path |-> file_path, fopen |-> << >>]
             ELSE [ret |-> 0,
                   status |-> CASE outcome = "missing" -> 404
                                [] outcome = "too_large" -> 500
                                [] OTHER -> 200,
                   file_path |-> file_path,
                   fopen |-> <<file_path>>]

\* a request no route matched reaches serve_static_file
static_request ==
  /\ pc = "static"
  /\ \E url_path \in Urls, outcome \in FileOutcomes :
       /\ args' = [path |-> url_path, file |-> outcome]
       /\ result' = serve_static_file(static, url_path, outcome)
  /\ UNCHANGED <<pc, routes, static, response, h2, producer>>
  /\ UNCHANGED not_lib

InitStatic == InitLib /\ pc = "static"
NextStatic == http_server_add_static_path \/ static_request
SpecStatic == InitStatic /\ [][NextStatic]_vars

\* C15: when the path resolved for a static request contains "..", the response
\* is 403 Forbidden and no file is opened; the static file server never opens a
\* file through a path containing "..".
TraversalBlocked ==
  result # << >> =>
    /\ (result.ret = 0 /\ strstr(result.file_path, <<".", ".">>)) =>
         (result.status = 403 /\ result.fopen = << >>)
    /\ \A k \in 1 .. Len(result.fopen) : ~strstr(result.fopen[k], <<".", ".">>)

\* a request under the static prefix whose path climbs out of a directory
\* that has no ".." of its own was answered
TraversalBlockedWitness ==
  /\ result # << >>
  /\ result.ret = 0
  /\ ~strstr(static.directory, <<".", ".">>)
  /\ strstr(args.path, <<".", ".", "/">>)
  /\ result.status = 403

(* ------------------------------ HTTP_RESPONSE --------------------------- *)
\* A header is its name, its value and the byte lengths of both; the bytes of
\* a serialised response are kept as the pieces snprintf and memcpy laid down,
\* each with the length it asked for (n) and the length that was written.
MaxHandlerHeaders == 2
INITIAL_BUFFER == 1024
GROW_MARGIN == 512
HEADER_NAME_SIZE == 128
HEADER_VALUE_SIZE == 512
BodyLen == 5

Header(name, name_len, value, value_len) ==
  [name |-> name, name_len |-> name_len, value |-> value, value_len |-> value_len]

ServerHeader == Header("Server", 6, "Equinox/1.0 (HTTP/1.1, HTTP/2)", 30)
ConnectionHeader == Header("Connection", 10, "close", 5)

\* what a handler may add: an ordinary header, two long ones, and the two
\* names the server adds by itself
HandlerHeaders ==
  { Header("Content-Type", 12, "application/json", 16),
    Header("Location", 8, "long-url", 418),
    Header("Set-Cookie", 10, "long-cookie", 511),
    Header("Server", 6, "mine", 4),
    Header("Connection", 10, "keep-alive", 10) }

StatusCodes == {200, 404}

\* http_status_to_string and its strlen
http_status_to_string(status) ==
  IF status = 200 THEN [text |-> "OK", len |-> 2] ELSE [text |-> "Not Found", len |-> 9]

\* http_response_create
http_response_create ==
  /\ pc = "resp_new"
  /\ response' = [status |-> 200, status_message |-> http_status_to_string(200),
                  headers |-> <<ServerHeader, ConnectionHeader>>,
                  body_length |-> 0, added |-> << >>]
  /\ pc' = "resp_handler"
  /\ UNCHANGED <<args, result, routes, static, h2, producer>>
  /\ UNCHANGED not_lib

\* http_response_add_header called by the handler
http_response_add_header ==
  /\ pc = "resp_handler"
  /\ Len(response.added) < MaxHandlerHeaders
  /\ \E h \in HandlerHeaders :
       LET stored == [h EXCEPT !.name_len = Min(h.name_len, HEADER_NAME_SIZE - 1),
                               !.value_len = Min(h.value_len, HEADER_VALUE_SIZE - 1)]
       IN  response' = [response EXCEPT !.headers = Append(@, stored),
                                        !.added = Append(@, stored)]
  /\ UNCHANGED <<pc, args, result, routes, static, h2, producer>>
  /\ UNCHANGED not_lib

\* http_response_set_status called by the handler
http_response_set_status ==
  /\ pc = "resp_handler"
  /\ \E status \in StatusCodes :
       /\ status # response.status
       /\ response' = [response EXCEPT !.status = status,
                                       !.status_message = http_status_to_string(status)]
  /\ UNCHANGED <<pc, args, result, routes, static, h2, producer>>
  /\ UNCHANGED not_lib

\* http_response_set_body called by the handler
http_response_set_body ==
  /\ pc = "resp_handler"
  /\ response.body_length = 0
  /\ response' = [response EXCEPT !.body_length = BodyLen]
  /\ UNCHANGED <<pc, args, result, routes, static, h2, producer>>
  /\ UNCHANGED not_lib

\* one snprintf(buffer + offset, capacity - offset, ...) that asks for n bytes:
\* at most capacity - offset - 1 of them are written, offset advances by n
snprintf_at(b, piece, n) ==
  [out |-> Append(b.out, [piece EXCEPT !.n = n,
                                       !.written = Min(n, b.capacity - b.offset - 1)]),
   offset |-> b.offset + n,
   capacity |-> b.capacity]

Piece(kind, name, value) == [kind |-> kind, name |-> name, value |-> value, n |-> 0, written |-> 0]

\* the header loop of build_http_response, from header i on
RECURSIVE write_headers(_, _, _)
write_headers(b, headers, i) ==
  IF i > Len(headers) THEN b
  ELSE LET h == headers[i]
           w == snprintf_at(b, Piece("header", h.name, h.value), h.name_len + h.value_len + 4)
           grown == IF w.offset >= w.capacity - GROW_MARGIN
                      THEN [w EXCEPT !.capacity = 2 * w.capacity]
                      ELSE w
       IN  write_headers(grown, headers, i + 1)

\* build_http_response: the pieces of the buffer and *response_len
build_http_response(r) ==
  LET b0 == [out |-> << >>, offset |-> 0, capacity |-> INITIAL_BUFFER]
      b1 == snprintf_at(b0, Piece("status", r.status, r.status_message.text),
                        9 + 3 + 1 + r.status_message.len + 2)
      b2 == write_headers(b1, r.headers, 1)
      b3 == IF r.body_length > 0
              THEN snprintf_at(b2, Piece("header", "Content-Length", r.body_length), 16 + 1 + 2)
              ELSE b2
      b4 == snprintf_at(b3, Piece("blank", "", ""), 2)
      b5 == IF r.body_length > 0
              THEN [b4 EXCEPT !.out = Append(@, [Piece("body", "", "") EXCEPT
                                                   !.n = r.body_length,
                                                   !.written = r.body_length]),
                              !.offset = @ + r.body_length]
              ELSE b4
  IN  [buffer |-> b5.out, response_len |-> b5.offset]

\* process_http_request builds the response once the handler returned
serialise_response ==
  /\ pc = "resp_handler"
  /\ result' = build_http_response(response)
  /\ pc' = "resp_sent"
  /\ UNCHANGED <<args, routes, static, response, h2, producer>>
  /\ UNCHANGED not_lib

\* what send() on the non-blocking socket can return for len offered bytes:
\* -1 (EAGAIN or another error) or the number of bytes the socket buffer
\* took, here all of them, all but one, or one
SendReturns(len) == {-1, len} \cup {n \in {1, len - 1} : 0 < n /\ n < len}

\* send(conn->socket, response_str, response_len, 0); the return value is not
\* looked at
send ==
  /\ pc = "resp_sent"
  /\ \E n \in SendReturns(result.response_len) :
       args' = [written |-> IF n < 0 THEN 0 ELSE n, closed |-> FALSE]
  /\ pc' = "resp_rm"
  /\ UNCHANGED <<result, routes, static, response, h2, producer>>
  /\ UNCHANGED not_lib

\* remove_connection(server, conn->socket) at the end of process_http_request
close_after_send ==
  /\ pc = "resp_rm"
  /\ args' = [args EXCEPT !.closed = TRUE]
  /\ pc' = "resp_closed"
  /\ UNCHANGED <<result, routes, static, response, h2, producer>>
  /\ UNCHANGED not_lib

InitResponse == InitLib /\ pc = "resp_new"
NextResponse ==
  \/ http_response_create \/ http_response_add_header \/ http_response_set_status
  \/ http_response_set_body \/ serialise_response \/ send \/ close_after_send
SpecResponse == InitResponse /\ [][NextResponse]_vars

Pieces(kind) == {k \in 1 .. Len(result.buffer) : result.buffer[k].kind = kind}
Named(name) == {k \in Pieces("header") : result.buffer[k].name = name}

\* C16: a serialised response begins with the status line 'HTTP/1.1 <code>
\* <phrase>' CRLF, lists the headers, has the blank line exactly once, before
\* the body, and carries Content-Length exactly when the body is non-empty,
\* with the body's byte length as its value.
ResponseWellFormed ==
  pc = "resp_sent" =>
    LET out == result.buffer
        nh == Len(response.headers)
    IN  /\ out[1].kind = "status"
        /\ out[1].name = response.status
        /\ out[1].value = response.status_message.text
        /\ \A k \in 1 .. Len(out) : out[k].written = out[k].n
        /\ \A i \in 1 .. nh :
             /\ out[1 + i].kind = "header"
             /\ out[1 + i].name = response.headers[i].name
             /\ out[1 + i].value = response.headers[i].value
        /\ Cardinality(Pieces("blank")) = 1
        /\ \A k \in Pieces("blank") : \A j \in Pieces("body") : k < j
        /\ \A k \in Pieces("blank") : \A j \in Pieces("header") : j < k
        /\ (Named("Content-Length") # {}) = (response.body_length > 0)
        /\ Cardinality(Named("Content-Length")) <= 1
        /\ \A k \in Named("Content-Length") : out[k].value = response.body_length

\* C17: a serialised response carries Server and Connection exactly once each:
\* the handler's value when the handler set the header, the default (for
\* Connection: close) otherwise.
DefaultHeadersOnce ==
  pc = "resp_sent" =>
    \A d \in {ServerHeader, ConnectionHeader} :
      LET own == {i \in 1 .. Len(response.added) : response.added[i].name = d.name}
      IN  /\ Cardinality(Named(d.name)) = 1
          /\ \A k \in Named(d.name) :
               IF own = {} THEN result.buffer[k].value = d.value
               ELSE \E i \in own : result.buffer[k].value = response.added[i].value

(* ------------------- preface detection and HTTP/2 hand-over ------------- *)
\* One accepted connection, byte by byte: what the client still has to send
\* (tosend), what the kernel holds unread (sock), conn->buffer, and what the
\* server sent. The client's bytes reach the socket in chunks of any size.
HTTP2_PREFACE_LEN == 24
HTTP2_FRAME_SETTINGS == 4
HTTP2_FLAG_NONE == 0
HTTP2_FLAG_ACK == 1

HTTP2_PREFACE ==
  <<"P", "R", "I", " ", "*", " ", "H", "T", "T", "P", "/", "2", ".", "0",
    "\r", "\n", "\r", "\n", "S", "M", "\r", "\n", "\r", "\n">>

\* an empty SETTINGS frame as the client sends it: length 0, type 4, flags 0, stream 0
ClientSettings == <<"0x00", "0x00", "0x00", "0x04", "0x00", "0x00", "0x00", "0x00", "0x00">>

Http1Request ==
  <<"G", "E", "T", " ", "/", " ", "H", "T", "T", "P", "/", "1", ".", "1",
    "\r", "\n", "\r", "\n">>

\* 24 bytes that differ from the preface in one byte
NearPreface == [HTTP2_PREFACE EXCEPT ![20] = "X"]

\* a request that announces a body of two bytes and carries it
PostBody == <<"h", "i">>
PostRequest ==
  <<"P", "O", "S", "T", " ", "/", "a", " ", "H", "T", "T", "P", "/", "1", ".", "1", "\r", "\n",
    "C", "o", "n", "t", "e", "n", "t", "-", "L", "e", "n", "g", "t", "h", ":", " ", "2",
    "\r", "\n", "\r", "\n">> \o PostBody

ClientStreams ==
  { HTTP2_PREFACE \o ClientSettings,
    HTTP2_PREFACE \o HTTP2_PREFACE \o ClientSettings,
    Http1Request,
    NearPreface \o ClientSettings,
    PostRequest }

default_settings == <<4096, 1, 100, 65535, 16384, 8192>>

\* the frame http2_send_settings puts on the wire
http2_send_settings(ack) ==
  IF ack
    THEN [type |-> HTTP2_FRAME_SETTINGS, flags |-> HTTP2_FLAG_ACK, stream_id |-> 0,
          payload |-> << >>]
    ELSE [type |-> HTTP2_FRAME_SETTINGS, flags |-> HTTP2_FLAG_NONE, stream_id |-> 0,
          payload |-> [k \in 1 .. 6 |-> <<k, default_settings[k]>>]]

\* the C string that starts at buf: the bytes before the first NUL
cstr(buf) == IF strchr(buf, "0x00") = 0 THEN buf ELSE SubSeq(buf, 1, strchr(buf, "0x00") - 1)

IsLineEnd(c) == c \in {"\r", "\n"}

\* strtok(buf, "\r\n"): the first run of bytes that holds no CR and no LF
RECURSIVE strtok_line(_)
strtok_line(s) ==
  IF s = << >> THEN << >>
  ELSE IF IsLineEnd(s[1]) THEN strtok_line(Tail(s))
  ELSE IF \E i \in 1 .. Len(s) : IsLineEnd(s[i])
    THEN SubSeq(s, 1, (CHOOSE i \in 1 .. Len(s) :
                         IsLineEnd(s[i]) /\ \A j \in 1 .. i - 1 : ~IsLineEnd(s[j])) - 1)
    ELSE s

\* how many conversions sscanf("%15s %511s %15s") could fill: the words of the line
Words(line) ==
  Cardinality({i \in 1 .. Len(line) : line[i] # " " /\ (i = 1 \/ line[i - 1] = " ")})

\* parse_http_request succeeds when the request line has its three words
parse_http_request(buf) ==
  /\ strtok_line(cstr(buf)) # << >>
  /\ Words(strtok_line(cstr(buf))) >= 3

\* process_http_request on conn->buffer: "wait" (return, request incomplete),
\* "rejected" (parse failed, connection removed), "answered" (a response was
\* sent, connection removed)
process_http_request(buf) ==
  IF Len(buf) < 4 THEN "wait"
  ELSE IF ~strstr(cstr(buf), <<"\r", "\n", "\r", "\n">>) THEN "wait"
  ELSE IF ~parse_http_request(buf) THEN "rejected"
  ELSE "answered"

h2_client_connects ==
  /\ pc = "h2_new"
  /\ \E stream \in ClientStreams :
       h2' = [stream |-> stream, tosend |-> stream, sock |-> << >>, buffer |-> << >>,
              is_http2 |-> FALSE, handed |-> FALSE, open |-> TRUE,
              parsed |-> FALSE, answered |-> FALSE, sent |-> << >>]
  /\ pc' = "h2_wait"
  /\ UNCHANGED <<args, result, routes, static, response, producer>>
  /\ UNCHANGED not_lib

\* the client's next bytes reach the server's socket
h2_client_sends ==
  /\ pc \in {"h2_wait", "h2_peek"}
  /\ \E n \in 1 .. Len(h2.tosend) :
       h2' = [h2 EXCEPT !.sock = @ \o SubSeq(h2.tosend, 1, n),
                        !.tosend = Advance(@, n)]
  /\ UNCHANGED <<pc, args, result, routes, static, response, producer>>
  /\ UNCHANGED not_lib

\* handle_client_data with bytes to read: recv appends them to conn->buffer;
\* the preface test; otherwise process_http_request on the buffer
handle_client_data ==
  /\ pc = "h2_wait"
  /\ h2.sock # << >>
  /\ LET buffer == h2.buffer \o h2.sock
         read == [h2 EXCEPT !.buffer = buffer, !.sock = << >>]
     IN  IF /\ Len(buffer) >= HTTP2_PREFACE_LEN
            /\ ~h2.is_http2
            /\ SubSeq(buffer, 1, HTTP2_PREFACE_LEN) = HTTP2_PREFACE
           THEN /\ h2' = [read EXCEPT !.is_http2 = TRUE]
                /\ pc' = "h2_peek"
           ELSE LET outcome == process_http_request(buffer)
                IN  /\ h2' = [read EXCEPT
                                !.parsed = (outcome # "wait"),
                                !.answered = (outcome = "answered"),
                                !.sent = IF outcome = "answered"
                                           THEN Append(@, [type |-> "HTTP/1.1 response"])
                                           ELSE @,
                                !.open = (outcome = "wait")]
                    /\ pc' = IF outcome = "wait" THEN "h2_wait" ELSE "h2_closed"
  /\ UNCHANGED <<args, result, routes, static, response, producer>>
  /\ UNCHANGED not_lib

\* http2_handle_connection on the promoted connection, then remove_connection:
\* the preface is looked for, with MSG_PEEK, in what the socket holds now
http2_handle_connection ==
  /\ pc = "h2_peek"
  /\ LET bytes == Min(Len(h2.sock), HTTP2_PREFACE_LEN)
     IN  IF bytes = HTTP2_PREFACE_LEN /\ SubSeq(h2.sock, 1, HTTP2_PREFACE_LEN) = HTTP2_PREFACE
           THEN h2' = [h2 EXCEPT !.sock = Advance(@, HTTP2_PREFACE_LEN),
                                 !.sent = Append(@, http2_send_settings(FALSE)),
                                 !.handed = TRUE,
                                 !.open = FALSE]
           ELSE h2' = [h2 EXCEPT !.handed = TRUE, !.open = FALSE]
  /\ pc' = "h2_closed"
  /\ UNCHANGED <<args, result, routes, static, response, producer>>
  /\ UNCHANGED not_lib

InitH2 == InitLib /\ pc = "h2_new"
NextH2 == h2_client_connects \/ h2_client_sends \/ handle_client_data \/ http2_handle_connection
SpecH2 == InitH2 /\ [][NextH2]_vars

\* C18: a connection promoted on the 24-byte preface has been sent, by the time
\* it is closed, a SETTINGS frame (type 4, no flags, stream 0) with the six
\* defaults and then a SETTINGS frame with the ACK flag.
SettingsThenAck ==
  (pc = "h2_closed" /\ h2.is_http2) =>
    \E i, j \in 1 .. Len(h2.sent) :
      /\ i < j
      /\ h2.sent[i] = [type |-> 4, flags |-> 0, stream_id |-> 0,
                       payload |-> << <<1, 4096>>, <<2, 1>>, <<3, 100>>,
                                      <<4, 65535>>, <<5, 16384>>, <<6, 8192>> >>]
      /\ h2.sent[j].type = 4
      /\ h2.sent[j].flags = 1

\* C19: a connection whose first 24 bytes are the preface is never parsed or
\* answered as HTTP/1.1, however the bytes are split across reads, and is closed
\* only after being promoted and handed to the HTTP/2 path; a connection whose
\* first 24 bytes differ is never promoted and its bytes stay in the buffer.
PrefaceAlwaysPromoted ==
  pc \in {"h2_wait", "h2_peek", "h2_closed"} =>
    IF IsPrefix(HTTP2_PREFACE, h2.stream)
      THEN /\ ~h2.parsed
           /\ ~h2.answered
           /\ ~h2.open => (h2.is_http2 /\ h2.handed)
      ELSE /\ ~h2.is_http2
           /\ ~h2.handed
           /\ IsPrefix(h2.buffer, h2.stream)

(* ------------------------------ Kafka producer -------------------------- *)
\* The producer API called by one caller; result is the log of the calls made,
\* and a producer handle is named after the call that created it.
MaxProducerCalls == 4
ProducerConfigs == {"brokers-a", "brokers-b"}
\* what the allocator and librdkafka make of an init: calloc fails, a
\* rd_kafka_conf_set is refused, rd_kafka_new fails, or all succeed
InitOutcomes == {"calloc_fails", "conf_refused", "new_fails", "created"}

\* an init that installs a new producer whatever the client already holds
kafka_producer_init_overwrite ==
  /\ pc = "prod"
  /\ Len(result) < MaxProducerCalls
  /\ \E config \in ProducerConfigs, outcome \in InitOutcomes :
       /\ args' = [call |-> "kafka_producer_init", config |-> config]
       /\ IF outcome = "created"
            THEN /\ producer' = [handle |-> Len(result) + 1, config |-> config]
                 /\ result' = Append(result, [call |-> "kafka_producer_init", config |-> config,
                                              ret |-> "FRAMEWORK_SUCCESS"])
            ELSE /\ producer' = [handle |-> 0, config |-> "none"]
                 /\ result' = Append(result, [call |-> "kafka_producer_init", config |-> config,
                                              ret |-> "FRAMEWORK_ERROR_INVALID"])
  /\ UNCHANGED <<pc, routes, static, response, h2>>
  /\ UNCHANGED not_lib

\* kafka_producer_init
kafka_producer_init ==
  /\ pc = "prod"
  /\ Len(result) < MaxProducerCalls
  /\ \E config \in ProducerConfigs, outcome \in InitOutcomes :
       LET returns(ret) == Append(result, [call |-> "kafka_producer_init",
                                           config |-> config, ret |-> ret])
       IN  /\ args' = [call |-> "kafka_producer_init", config |-> config]
           /\ IF producer.handle # 0
                THEN /\ producer' = producer
                     /\ result' = returns("FRAMEWORK_ERROR_STATE")
                ELSE CASE outcome = "calloc_fails" ->
                            /\ producer' = producer
                            /\ result' = returns("FRAMEWORK_ERROR_MEMORY")
                       [] outcome \in {"conf_refused", "new_fails"} ->
                            /\ producer' = [handle |-> 0, config |-> "none"]
                            /\ result' = returns("FRAMEWORK_ERROR_INVALID")
                       [] OTHER ->
                            /\ producer' = [handle |-> Len(result) + 1, config |-> config]
                            /\ result' = returns("FRAMEWORK_SUCCESS")
  /\ UNCHANGED <<pc, routes, static, response, h2>>
  /\ UNCHANGED not_lib

\* kafka_produce with a topic and a payload
kafka_produce ==
  /\ pc = "prod"
  /\ Len(result) < MaxProducerCalls
  /\ \E delivered \in BOOLEAN :
       LET ret == IF producer.handle = 0 THEN "FRAMEWORK_ERROR_STATE"
                  ELSE IF ~delivered THEN "FRAMEWORK_ERROR_INVALID"
                  ELSE "FRAMEWORK_SUCCESS"
       IN  /\ args' = [call |-> "kafka_produce", config |-> "none"]
           /\ result' = Append(result, [call |-> "kafka_produce", config |-> "none",
                                        ret |-> ret])
  /\ UNCHANGED <<pc, routes, static, response, h2, producer>>
  /\ UNCHANGED not_lib

InitProducer == InitLib /\ pc = "prod"
NextProducer == kafka_producer_init \/ kafka_produce
SpecProducer == InitProducer /\ [][NextProducer]_vars

\* C20: a client holds at most one producer: after a successful init every
\* later init returns the state error and leaves handle and configuration as
\* they were; a failed init leaves the client without a producer, so
\* kafka_produce returns the state error as long as no init succeeded.
OneProducer ==
  [][(pc = "prod" /\ Len(result') = Len(result) + 1) =>
       LET e == result'[Len(result')]
           init == e.call = "kafka_producer_init"
       IN  /\ (init /\ producer.handle # 0) =>
                (e.ret = "FRAMEWORK_ERROR_STATE" /\ producer' = producer)
           /\ (init /\ e.ret # "FRAMEWORK_SUCCESS") =>
                producer' = producer
           /\ (init /\ e.ret = "FRAMEWORK_SUCCESS") =>
                /\ producer.handle = 0
                /\ producer'.handle # 0
                /\ producer'.config = e.config
           /\ (~init) =>
                /\ producer' = producer
                /\ (e.ret = "FRAMEWORK_ERROR_STATE") = (producer.handle = 0)]_vars

\* an init failed, kafka_produce was refused, a later init succeeded and the
\* init after it was refused
OneProducerWitness ==
  /\ pc = "prod"
  /\ Len(result) = 4
  /\ result[1].call = "kafka_producer_init" /\ result[1].ret = "FRAMEWORK_ERROR_INVALID"
  /\ result[2].call = "kafka_produce" /\ result[2].ret = "FRAMEWORK_ERROR_STATE"
  /\ result[3].call = "kafka_producer_init" /\ result[3].ret = "FRAMEWORK_SUCCESS"
  /\ result[4].call = "kafka_producer_init" /\ result[4].ret = "FRAMEWORK_ERROR_STATE"
  /\ result[4].config # result[3].config
  /\ producer = [handle |-> 3, config |-> result[3].config]

(* ------------------------------ request body ---------------------------- *)
\* the body parse_http_request hands to the handler: whatever the buffer holds
\* after the first CRLF CRLF
request_body(buf) ==
  LET crlf2 == <<"\r", "\n", "\r", "\n">>
      s == cstr(buf)
      at == CHOOSE i \in 1 .. Len(s) :
              /\ i + 3 <= Len(s)
              /\ SubSeq(s, i, i + 3) = crlf2
              /\ \A j \in 1 .. i - 1 : SubSeq(s, j, j + 3) # crlf2
  IN  IF strstr(s, crlf2) THEN Advance(buf, at + 3) ELSE << >>

\* C21: a request with Content-Length: n followed by n body bytes is handled
\* with a body of exactly those n bytes, however its bytes are split across
\* reads; it is not handled while fewer than n body bytes are buffered.
BodyComplete ==
  (pc \in {"h2_wait", "h2_closed"} /\ h2.stream = PostRequest /\ h2.answered) =>
    request_body(h2.buffer) = PostBody

(* --------------------------- dispatch of messages ----------------------- *)
\* C22: every message the broker has delivered to a registration, on any topic
\* of its set, has been dispatched exactly once by that registration's worker
\* (it is handled or being handled, never both and never twice), to that
\* registration's handler with that registration's user-data value and with
\* message.topic equal to the topic it was delivered on.
DispatchedOnce ==
  \A i \in 1 .. consumer_count :
    /\ \A p \in Partitions :
         klog[i].done[p] + (IF wk[i].pc = "handler" /\ wk[i].part = p THEN 1 ELSE 0)
           = broker[i][p]
    /\ (wk[i].pc = "handler" =>
         /\ wk[i].fn = i
         /\ wk[i].arg = i
         /\ wk[i].topic = rd_kafka_topic_name(wk[i].part))

\* the second registration's worker is inside its handler on a message of the
\* second topic while the first registration has handled a message of its own
DispatchedOnceWitness ==
  /\ consumer_count = 2
  /\ wk[2].pc = "handler"
  /\ wk[2].topic = "t1"
  /\ wk[2].fn = 2
  /\ \E p \in Partitions : klog[1].done[p] > 0

(* ---------------------------- unknown methods --------------------------- *)
StandardTokens ==
  {<<"G", "E", "T">>, <<"P", "O", "S", "T">>, <<"P", "U", "T">>,
   <<"D", "E", "L", "E", "T", "E">>, <<"P", "A", "T", "C", "H">>,
   <<"H", "E", "A", "D">>, <<"O", "P", "T", "I", "O", "N", "S">>}

\* C23: a request whose method token is none of GET, POST, PUT, DELETE, PATCH,
\* HEAD, OPTIONS is parsed with method UNKNOWN, matches no route of any table
\* http_server_add_route can build, and has no route handler invoked for it.
UnknownMethodUnrouted ==
  (pc = "route_done" /\ args.token \notin StandardTokens) =>
    /\ args.method = "UNKNOWN"
    /\ \A i \in 1 .. Len(routes) : ~result.matches[i]
    /\ result.handler = 0

(* ------------------------------- url_decode ----------------------------- *)
MaxSrcLen == 4
DECODED_KEY_SIZE == 128
SrcChars == {"%", "+", "4", "1", "z"}
Sources == UNION {[1 .. n -> SrcChars] : n \in 0 .. MaxSrcLen}

HexDigits == <<"0", "1", "2", "3", "4", "5", "6", "7", "8", "9",
               "a", "b", "c", "d", "e", "f">>
UpperHexDigits == <<"0", "1", "2", "3", "4", "5", "6", "7", "8", "9",
                    "A", "B", "C", "D", "E", "F">>
isxdigit(c) == \E d \in 1 .. 16 : c = HexDigits[d] \/ c = UpperHexDigits[d]
HexVal(c) == (CHOOSE d \in 1 .. 16 : c = HexDigits[d] \/ c = UpperHexDigits[d]) - 1
isspace(c) == c \in {" ", "\t", "\n", "\r", "\f"}

\* the printable ASCII characters, from space (32) to tilde (126); the grave
\* accent (96) is named by its value
Ascii ==
  <<" ", "!", "\"", "#", "$", "%", "&", "'", "(", ")", "*", "+", ",", "-", ".", "/",
    "0", "1", "2", "3", "4", "5", "6", "7", "8", "9", ":", ";", "<", "=", ">", "?",
    "@", "A", "B", "C", "D", "E", "F", "G", "H", "I", "J", "K", "L", "M", "N", "O",
    "P", "Q", "R", "S", "T", "U", "V", "W", "X", "Y", "Z", "[", "\\", "]", "^", "_",
    "0x96", "a", "b", "c", "d", "e", "f", "g", "h", "i", "j", "k", "l", "m", "n", "o",
    "p", "q", "r", "s", "t", "u", "v", "w", "x", "y", "z", "{", "|", "}", "~">>

\* (char)n: the character of a byte value; bytes outside printable ASCII are
\* named by their value
Chr(n) ==
  IF n = 0 THEN "0x00"
  ELSE IF n \in 32 .. 126 THEN Ascii[n - 31]
  ELSE "0x" \o ToString(n)

\* strtol(hex, NULL, 16) on the two characters after a '%': leading white
\* space is skipped, a sign is accepted, then hexadecimal digits are read as
\* far as they go (none read gives 0); the result is cast to char
RECURSIVE hex_run(_, _)
hex_run(s, acc) ==
  IF s # << >> /\ isxdigit(s[1]) THEN hex_run(Tail(s), 16 * acc + HexVal(s[1])) ELSE acc

RECURSIVE skip_space(_)
skip_space(s) == IF s # << >> /\ isspace(s[1]) THEN skip_space(Tail(s)) ELSE s

strtol(hex) ==
  LET s == skip_space(hex)
      negative == s # << >> /\ s[1] = "-"
      digits == IF s # << >> /\ s[1] \in {"+", "-"} THEN Tail(s) ELSE s
      v == hex_run(digits, 0)
  IN  IF negative THEN (256 - v) % 256 ELSE v % 256

\* the loop of url_decode: i and j are the 0-based indices of the code, src[i]
\* past the end of the string is its terminating NUL
RECURSIVE url_decode_loop(_, _, _, _)
url_decode_loop(src, dst_size, i, dst) ==
  LET at(k) == IF k + 1 <= Len(src) THEN src[k + 1] ELSE "0x00"
      j == Len(dst)
  IN  IF at(i) = "0x00" \/ ~(j < dst_size - 1) THEN dst
      ELSE IF at(i) = "%" /\ at(i + 1) # "0x00" /\ at(i + 2) # "0x00"
        THEN url_decode_loop(src, dst_size, i + 3,
                             Append(dst, Chr(strtol(<<at(i + 1), at(i + 2)>>))))
      ELSE IF at(i) = "+"
        THEN url_decode_loop(src, dst_size, i + 1, Append(dst, " "))
      ELSE url_decode_loop(src, dst_size, i + 1, Append(dst, at(i)))

\* the bytes url_decode writes to dst before the terminating NUL
url_decode_bytes(src, dst_size) == url_decode_loop(src, dst_size, 0, << >>)

\* parse_query_string decodes a key of the query string
url_decode ==
  /\ pc = "decode"
  /\ \E src \in Sources :
       /\ args' = src
       /\ result' = url_decode_bytes(src, DECODED_KEY_SIZE)
  /\ pc' = "decoded"
  /\ UNCHANGED <<routes, static, response, h2, producer>>
  /\ UNCHANGED not_lib

InitDecode == InitLib /\ pc = "decode"
NextDecode == url_decode
SpecDecode == InitDecode /\ [][NextDecode]_vars

\* the decoder of the specification: '%' followed by two hexadecimal digits is
\* that byte, '+' is a space, every other character is copied
RECURSIVE reference_decode(_)
reference_decode(s) ==
  IF s = << >> THEN << >>
  ELSE IF s[1] = "%" /\ Len(s) >= 3 /\ isxdigit(s[2]) /\ isxdigit(s[3])
    THEN <<Chr(16 * HexVal(s[2]) + HexVal(s[3]))>> \o reference_decode(Advance(s, 3))
  ELSE IF s[1] = "+" THEN <<" ">> \o reference_decode(Tail(s))
  ELSE <<s[1]>> \o reference_decode(Tail(s))

\* C24: url_decode equals the reference decoder on every input that fits the
\* destination: '%' and two hexadecimal digits become that byte, '+' becomes a
\* space, and every other character, a '%' without two hexadecimal digits
\* included, is copied unchanged.
DecodeIsReference ==
  (pc = "decoded" /\ Len(args) < DECODED_KEY_SIZE) => result = reference_decode(args)

(* --------------------------- security settings -------------------------- *)
AuthTypes == {"KAFKA_AUTH_NONE", "KAFKA_AUTH_SASL_PLAIN", "KAFKA_AUTH_SASL_SCRAM_SHA256",
              "KAFKA_AUTH_SASL_SCRAM_SHA512", "KAFKA_AUTH_SASL_GSSAPI",
              "KAFKA_AUTH_SASL_OAUTHBEARER"}
\* the configurations a caller can pass: every TLS / authentication
\* combination, an authentication type outside the enumeration, with and
\* without a CA file
SecurityConfigs ==
  [enable_ssl : {0, 1}, auth_type : AuthTypes \cup {"out of range"},
   ssl_ca_location : {<< >>, <<"c", "a">>}]

get_sasl_mechanism(auth_type) ==
  CASE auth_type = "KAFKA_AUTH_SASL_PLAIN" -> "PLAIN"
    [] auth_type = "KAFKA_AUTH_SASL_SCRAM_SHA256" -> "SCRAM-SHA-256"
    [] auth_type = "KAFKA_AUTH_SASL_SCRAM_SHA512" -> "SCRAM-SHA-512"
    [] auth_type = "KAFKA_AUTH_SASL_GSSAPI" -> "GSSAPI"
    [] auth_type = "KAFKA_AUTH_SASL_OAUTHBEARER" -> "OAUTHBEARER"
    [] OTHER -> "NULL"

\* rd_kafka_conf_new: the library's defaults for the properties set below
rd_kafka_conf_new ==
  [security_protocol |-> "plaintext", sasl_mechanism |-> "GSSAPI", ssl_ca_location |-> << >>]

\* either function starts to build the configuration of its handle
security_begin ==
  /\ pc = "sec_new"
  /\ \E who \in {"consumer", "producer"}, config \in SecurityConfigs :
       args' = [who |-> who, config |-> config]
  /\ result' = [conf |-> rd_kafka_conf_new, ret |-> "pending"]
  /\ pc' = "sec_ssl"
  /\ UNCHANGED <<routes, static, response, h2, producer>>
  /\ UNCHANGED not_lib

\* the "SSL/TLS Configuration" block: any rd_kafka_conf_set may be refused,
\* which fails the call
ssl_block(who) ==
  /\ pc = "sec_ssl"
  /\ args.who = who
  /\ IF args.config.enable_ssl # 0
       THEN \/ /\ result' = [result EXCEPT
                     !.conf.security_protocol = "ssl",
                     !.conf.ssl_ca_location =
                        IF Len(args.config.ssl_ca_location) > 0
                          THEN args.config.ssl_ca_location ELSE @]
               /\ pc' = "sec_auth"
            \/ /\ result' = [result EXCEPT !.ret = "FRAMEWORK_ERROR_INVALID"]
               /\ pc' = "sec_failed"
       ELSE /\ result' = result
            /\ pc' = "sec_auth"
  /\ UNCHANGED <<args, routes, static, response, h2, producer>>
  /\ UNCHANGED not_lib

\* fault: the authentication block sets sasl_plaintext whatever enable_ssl is
auth_block_plaintext(who) ==
  /\ pc = "sec_auth"
  /\ args.who = who
  /\ IF args.config.auth_type # "KAFKA_AUTH_NONE"
       THEN \/ /\ get_sasl_mechanism(args.config.auth_type) # "NULL"
               /\ result' = [result EXCEPT
                     !.conf.security_protocol = "sasl_plaintext",
                     !.conf.sasl_mechanism = get_sasl_mechanism(args.config.auth_type),
                     !.ret = "FRAMEWORK_SUCCESS"]
               /\ pc' = "sec_done"
            \/ /\ result' = [result EXCEPT !.ret = "FRAMEWORK_ERROR_INVALID"]
               /\ pc' = "sec_failed"
       ELSE \/ /\ result' = [result EXCEPT !.ret = "FRAMEWORK_SUCCESS"]
               /\ pc' = "sec_done"
            \/ /\ result' = [result EXCEPT !.ret = "FRAMEWORK_ERROR_INVALID"]
               /\ pc' = "sec_failed"
  /\ UNCHANGED <<args, routes, static, response, h2, producer>>
  /\ UNCHANGED not_lib

\* the "Authentication Configuration" block and the rest of the call: an
\* authentication type without a mechanism fails the call, as does any refused
\* rd_kafka_conf_set and a failing rd_kafka_new
auth_block(who) ==
  /\ pc = "sec_auth"
  /\ args.who = who
  /\ IF args.config.auth_type # "KAFKA_AUTH_NONE"
       THEN \/ /\ get_sasl_mechanism(args.config.auth_type) # "NULL"
               /\ result' = [result EXCEPT
                     !.conf.security_protocol =
                        IF args.config.enable_ssl # 0 THEN "sasl_ssl" ELSE "sasl_plaintext",
                     !.conf.sasl_mechanism = get_sasl_mechanism(args.config.auth_type),
                     !.ret = "FRAMEWORK_SUCCESS"]
               /\ pc' = "sec_done"
            \/ /\ result' = [result EXCEPT !.ret = "FRAMEWORK_ERROR_INVALID"]
               /\ pc' = "sec_failed"
       ELSE \/ /\ result' = [result EXCEPT !.ret = "FRAMEWORK_SUCCESS"]
               /\ pc' = "sec_done"
            \/ /\ result' = [result EXCEPT !.ret = "FRAMEWORK_ERROR_INVALID"]
               /\ pc' = "sec_failed"
  /\ UNCHANGED <<args, routes, static, response, h2, producer>>
  /\ UNCHANGED not_lib

\* kafka_consumer_register_multi and kafka_producer_init run the same two blocks
consumer_security == ssl_block("consumer") \/ auth_block("consumer")
producer_security == ssl_block("producer") \/ auth_block("producer")

InitSecurity == InitLib /\ pc = "sec_new"
NextSecurity == security_begin \/ consumer_security \/ producer_security
SpecSecurity == InitSecurity /\ [][NextSecurity]_vars

\* C25: for every combination of enable_ssl and of the six authentication
\* types, the security.protocol in effect for a consumer registration and for
\* the producer is plaintext without TLS and authentication, ssl with TLS only,
\* sasl_plaintext with SASL only, sasl_ssl with both.
SecurityProtocol ==
  (pc = "sec_done" /\ args.config.auth_type \in AuthTypes) =>
    LET tls == args.config.enable_ssl = 1
        sasl == args.config.auth_type # "KAFKA_AUTH_NONE"
    IN  result.conf.security_protocol =
          CASE ~tls /\ ~sasl -> "plaintext"
            [] tls /\ ~sasl -> "ssl"
            [] ~tls /\ sasl -> "sasl_plaintext"
            [] tls /\ sasl -> "sasl_ssl"

\* the producer was initialised with TLS and SCRAM-SHA-512
SecurityProtocolWitness ==
  /\ pc = "sec_done"
  /\ args.who = "producer"
  /\ args.config.enable_ssl = 1
  /\ args.config.auth_type = "KAFKA_AUTH_SASL_SCRAM_SHA512"
  /\ result.conf.sasl_mechanism = "SCRAM-SHA-512"
  /\ result.ret = "FRAMEWORK_SUCCESS"

(* ------------------------- failed start of a run ------------------------ *)
\* C26: when a start step fails inside application_run, the run returns an
\* error with nothing left running: the HTTP server is stopped, no Kafka worker
\* runs, the Kafka client is not marked running and the supervisor's running
\* flag is 0.
FailedStartLeavesNothing ==
  (pc = "app_done" /\ loc.rv = "STATE") =>
    /\ app.running = 0
    /\ srv.running = 0
    /\ kc.running = 0
    /\ \A i \in 1 .. consumer_count :
         /\ kc.consumers[i].thread # "live"
         /\ wk[i].pc \in {"none", "exited"}

(* ---------------------------- rejected requests ------------------------- *)
\* slot i holds a malformed request, or is full without a blank line
Rejected(i) == conns[i].buf \in {"full", "malformed"} /\ ~conns[i].is_http2

Unanswered(f) == f \in ClientFds => life[f].runs = 0 /\ ~life[f].sent

WholeResponseBeforeClose ==
  (pc = "resp_closed" /\ args.closed) => args.written = result.response_len

(* ------------------------------- idle sweep ----------------------------- *)
TrackedSlots == 0 .. (Min(srv.connection_count, max_connections) - 1)
Idle(i) == loc.tnow - conns[i].last_activity > IDLE_TIMEOUT

\* C29: when the idle sweep of a loop iteration ends, no tracked connection is
\* idle for more than 60 seconds by the sweep's clock; the sweep removes only
\* such connections; and the swap of the last entry into the freed slot keeps
\* every other tracked connection: the table after the removal holds exactly
\* the other entries.
IdleSweep ==
  /\ [](/\ (pc = "sweep" /\ loc.i >= srv.connection_count) =>
             \A i \in TrackedSlots : ~Idle(i)
        /\ (pc = "rm_find" /\ loc.ret = "sweep" /\ FindIdx(loc.fd) >= 0) =>
             Idle(FindIdx(loc.fd)))
  /\ [][(pc = "rm_shift" /\ loc.ret = "sweep" /\ pc' = "rm_dec"
          /\ srv.connection_count \in 1 .. max_connections) =>
         {conns'[i] : i \in 0 .. (srv.connection_count - 2)}
           = {conns[i] : i \in (0 .. (srv.connection_count - 1)) \ {loc.k}}]_vars

(* --------------------------- after http_server_stop --------------------- *)
\* http_server_stop has succeeded on the running server
HttpStopped == \E k \in 1 .. Len(hist.stops) : hist.stops[k] \in {"http", "http_signal"}

\* C30: once http_server_stop has succeeded on a running server, the server
\* is stopped (running = 0), the connection table is empty, the notification
\* descriptor and the listening socket are closed and reset to -1, and no
\* further connection is tracked or handled; the stop closes every tracked
\* socket exactly once.
StopLeavesServerDown ==
  /\ [](HttpStopped =>
          /\ srv.running = 0
          /\ srv.connection_count = 0
          /\ srv.epoll_fd = -1
          /\ srv.server_socket = -1
          /\ open_fds \cap {LISTEN_FD, EPOLL_FD} = {})
  /\ [][(srv.running = 1 /\ srv'.running = 0) =>
          /\ StopSockets \cap open_fds' = {}
          /\ hist'.bad_close = hist.bad_close]_vars
  /\ [][HttpStopped => \A f \in ClientFds : life'[f].runs = life[f].runs]_vars

(* ----------------------------- empty polls ------------------------------ *)
\* C31: a worker invokes the handler only for a polled message without error;
\* on a poll timeout, an end-of-partition event or any other error event it
\* invokes no handler, leaves its running flag alone, stays in its loop and
\* polls again.
HandlerOnlyForMessages ==
  /\ [](\A i \in 1 .. consumer_count : wk[i].pc = "handler" => wk[i].ev = "message")
  /\ [][\A i \in 1 .. consumer_count :
          /\ (wk[i].pc = "poll" /\ wk'[i].ev \in EmptyPolls) =>
                /\ wk'[i].pc = "top"
                /\ klog' = klog
                /\ broker' = broker
                /\ kc' = kc
          /\ (wk[i].pc = "top" /\ wk[i].ev \in EmptyPolls /\ kc.consumers[i].running = 1
                /\ wk'[i] # wk[i] /\ kc' = kc) =>
                wk'[i].pc = "poll"]_vars

\* a worker is polling again after an error event, having handled nothing
HandlerOnlyForMessagesWitness ==
  \E i \in 1 .. consumer_count :
    /\ wk[i].pc = "top"
    /\ wk[i].ev = "error"
    /\ kc.consumers[i].running = 1
    /\ klog[i].active = 0
    /\ \A p \in Partitions : klog[i].done[p] = 0

(* ------------------------------ worker exit ----------------------------- *)
Alive(i) == i <= consumer_count /\ wk[i].pc \in {"top", "poll", "handler"}
Cleared(i) == i <= consumer_count /\ kc.consumers[i].running = 0

\* C32: once a worker's running flag is cleared, and with every poll and every
\* handler returning, the worker eventually leaves its loop, having begun no
\* poll after the flag was cleared (so at most the message of the poll in
\* progress is still dispatched); hence kafka_client_stop, waiting in
\* pthread_join, eventually returns.
WorkerExits ==
  /\ \A i \in ConsumerIds : (Alive(i) /\ Cleared(i)) ~> (wk[i].pc = "exited")
  /\ (pc \in {"kstop_loop", "kstop_join"}) ~> (pc \notin {"kstop_loop", "kstop_join"})
  /\ [][\A i \in ConsumerIds :
          (Alive(i) /\ Cleared(i) /\ kc' = kc /\ wk'[i].pc = "poll") => wk[i].pc = "poll"]_vars

\* a worker has left its loop after its flag was cleared while it was inside
\* the handler, and kafka_client_stop has joined it
WorkerExitsWitness ==
  \E i \in 1 .. consumer_count :
    /\ wk[i].pc = "exited"
    /\ kc.consumers[i].running = 0
    /\ kc.consumers[i].thread = "joined"
    /\ \E p \in Partitions : klog[i].done[p] > 0

(* ------------------------ routes before static files -------------------- *)
ServePaths == { <<"/">>, <<"/", "a">>, <<"/", "b">>, <<"/", "a", "/", "b">> }
NotCalled == [ret |-> -1, status |-> 200, file_path |-> << >>, fopen |-> << >>]

\* fault: the static file server is asked before the routes
dispatch_static_first ==
  /\ pc = "serve"
  /\ \E token \in MethodTokens, path \in ServePaths, outcome \in FileOutcomes :
       LET method == http_method_from_string(token)
           m == route_loop(routes, method, path)
           file == serve_static_file(static, path, outcome)
       IN  /\ args' = [token |-> token, method |-> method, path |-> path, file |-> outcome]
           /\ result' = [matched_route |-> m,
                         handler |-> IF file.ret < 0 THEN m ELSE 0,
                         static_called |-> TRUE,
                         static |-> file,
                         status |-> IF file.ret = 0 THEN file.status
                                    ELSE IF m # 0 THEN 200 ELSE 404]
  /\ pc' = "served"
  /\ UNCHANGED <<routes, static, response, h2, producer>>
  /\ UNCHANGED not_lib

\* process_http_request from the route loop to the response's status: the
\* matched route's handler (which answers 200 here), else serve_static_file,
\* else 404 Not Found
dispatch_request ==
  /\ pc = "serve"
  /\ \E token \in MethodTokens, path \in ServePaths, outcome \in FileOutcomes :
       LET method == http_method_from_string(token)
           m == route_loop(routes, method, path)
           file == IF m # 0 THEN NotCalled ELSE serve_static_file(static, path, outcome)
       IN  /\ args' = [token |-> token, method |-> method, path |-> path, file |-> outcome]
           /\ result' = [matched_route |-> m,
                         handler |-> m,
                         static_called |-> (m = 0),
                         static |-> file,
                         status |-> IF m # 0 THEN 200
                                    ELSE IF file.ret < 0 THEN 404 ELSE file.status]
  /\ pc' = "served"
  /\ UNCHANGED <<routes, static, response, h2, producer>>
  /\ UNCHANGED not_lib

InitServe == InitLib /\ pc = "serve"
NextServe == http_server_add_route \/ http_server_add_static_path \/ dispatch_request
SpecServe == InitServe /\ [][NextServe]_vars

RouteMatched ==
  \E i \in 1 .. Len(routes) : http_route_matches(routes[i], args.method, args.path)

\* C33: static resolution is attempted exactly for the requests that no route
\* matched, and only with a static mapping registered: a request matched by a
\* route never reaches the static file server, and an unmatched request gets
\* 404 Not Found when static serving is disabled or its path does not start
\* with the registered URL prefix.
StaticOnlyUnmatched ==
  pc = "served" =>
    /\ RouteMatched =>
         (~result.static_called /\ result.static.ret < 0 /\ result.static.fopen = << >>
          /\ result.handler # 0)
    /\ result.static.ret = 0 <=>
         (~RouteMatched /\ static.enabled /\ IsPrefix(static.url_path, args.path))
    /\ (~RouteMatched /\ (~static.enabled \/ ~IsPrefix(static.url_path, args.path))) =>
         (result.status = 404 /\ result.handler = 0)

\* a request that a route matched, under a static mapping whose prefix it also
\* has and whose file exists, was answered by the route's handler
StaticOnlyUnmatchedWitness ==
  /\ pc = "served"
  /\ RouteMatched
  /\ static.enabled
  /\ IsPrefix(static.url_path, args.path)
  /\ args.file = "regular"
  /\ result.handler # 0
  /\ ~result.static_called

(* ----------------------- simplified HPACK header blocks ----------------- *)
MaxHeaders == 2
MaxFieldLen == 2
NameBytes == {97, 98}
ValueBytes == {120}
HeaderFields ==
  [name  : UNION {[1 .. n -> NameBytes] : n \in 0 .. MaxFieldLen},
   value : UNION {[1 .. n -> ValueBytes] : n \in 0 .. MaxFieldLen}]
HeaderLists == UNION {[1 .. n -> HeaderFields] : n \in 0 .. MaxHeaders}

\* fault: the representation byte is left out
encode_header_bare(h) ==
  <<Len(h.name) % 256>> \o h.name \o <<Len(h.value) % 256>> \o h.value

\* one turn of http2_encode_headers' loop: 0x00, (uint8_t)name_len, the name,
\* (uint8_t)value_len, the value
encode_header(h) ==
  <<0, Len(h.name) % 256>> \o h.name \o <<Len(h.value) % 256>> \o h.value

RECURSIVE encode_headers(_)
encode_headers(hs) ==
  IF hs = << >> THEN << >> ELSE encode_header(Head(hs)) \o encode_headers(Tail(hs))

\* strndup(input + offset, n): at most n bytes, stopping at a zero byte
RECURSIVE strndup(_, _, _)
strndup(input, offset, n) ==
  IF n = 0 \/ offset >= Len(input) \/ input[offset + 1] = 0 THEN << >>
  ELSE <<input[offset + 1]>> \o strndup(input, offset + 1, n - 1)

\* the while loop of http2_decode_headers; offset counts from 0 as in the code
RECURSIVE decode_loop(_, _, _)
decode_loop(input, offset, acc) ==
  LET input_len == Len(input)
      o1 == offset + 1
      name_len == input[o1 + 1]
      o2 == o1 + 1
      o3 == o2 + name_len
      value_len == input[o3 + 1]
      o4 == o3 + 1
  IN  IF ~(offset < input_len) THEN acc
      ELSE IF o1 >= input_len THEN acc
      ELSE IF o2 + name_len > input_len THEN acc
      ELSE IF o3 >= input_len THEN acc
      ELSE IF o4 + value_len > input_len THEN acc
      ELSE decode_loop(input, o4 + value_len,
                       Append(acc, [name |-> strndup(input, o2, name_len),
                                    value |-> strndup(input, o4, value_len)]))

http2_encode_headers ==
  /\ pc = "hpack"
  /\ \E hs \in HeaderLists :
       args' = [headers |-> hs, input |-> encode_headers(hs), cut |-> FALSE]
  /\ pc' = "encoded"
  /\ UNCHANGED <<result, routes, static, response, h2, producer>>
  /\ UNCHANGED not_lib

\* the block reaches the decoder short of its end
truncate_block ==
  /\ pc = "encoded"
  /\ ~args.cut
  /\ \E k \in 0 .. Len(args.input) - 1 :
       args' = [args EXCEPT !.input = SubSeq(args.input, 1, k), !.cut = TRUE]
  /\ UNCHANGED <<pc, result, routes, static, response, h2, producer>>
  /\ UNCHANGED not_lib

http2_decode_headers ==
  /\ pc = "encoded"
  /\ result' = [ret |-> 0, headers |-> decode_loop(args.input, 0, << >>)]
  /\ pc' = "decoded"
  /\ UNCHANGED <<args, routes, static, response, h2, producer>>
  /\ UNCHANGED not_lib

InitHpack == InitLib /\ pc = "hpack"
NextHpack == http2_encode_headers \/ truncate_block \/ http2_decode_headers
SpecHpack == InitHpack /\ [][NextHpack]_vars

\* bytes one header takes in a block
FieldSize(h) == 3 + Len(h.name) + Len(h.value)
RECURSIVE CompleteWithin(_, _)
CompleteWithin(hs, len) ==
  IF hs = << >> \/ FieldSize(Head(hs)) > len THEN << >>
  ELSE <<Head(hs)>> \o CompleteWithin(Tail(hs), len - FieldSize(Head(hs)))

\* C34: decoding an encoded header list returns exactly that list in order;
\* of a block whose name or value runs past its end, decoding returns success
\* with only the complete headers that precede the break.
HpackRoundTrip ==
  pc = "decoded" =>
    /\ result.ret = 0
    /\ ~args.cut => result.headers = args.headers
    /\ args.cut => result.headers = CompleteWithin(args.headers, Len(args.input))

\* a two-header block cut inside the second header's value gave the first
\* header alone
HpackRoundTripWitness ==
  /\ pc = "decoded"
  /\ args.cut
  /\ Len(args.headers) = 2
  /\ Len(args.headers[2].value) = 2
  /\ Len(args.input) = FieldSize(args.headers[1]) + FieldSize(args.headers[2]) - 1
  /\ result.headers = <<args.headers[1]>>

(* --------------------------- consumer registration ---------------------- *)
\* topic arrays a caller passes; "NULL" is a null element, "" an empty name
TopicArrays == { <<"t0">>, <<"t0", "t1">>, <<"">>, <<"NULL">>, <<"t0", "NULL">> }
\* how far the broker library lets the registration get
LibraryOutcomes == {"conf_rejected", "auth_invalid", "rd_kafka_new_failed",
                    "subscribe_failed", "ok"}
RegisterArgs ==
  [client : {"NULL", "set"}, topics_ptr : {"NULL", "set"}, topics : TopicArrays,
   count_given : BOOLEAN, config : {"NULL", "set"}, handler : 0 .. 1,
   lib : LibraryOutcomes]
topic_count(a) == IF a.count_given THEN Len(a.topics) ELSE 0

\* kafka_consumer_register_multi (kafka_consumer_register passes one topic).
\* The consumers array starts with room for ten entries, more than this model
\* registers, so the resize branch is not taken.
\*  - strdup of a null topic is undefined: the call does not return
\*  - after a failed rd_kafka_subscribe the configuration, which rd_kafka_new
\*    took over, is destroyed again at error_cleanup: undefined, the call
\*    returns the error or does not return
kafka_consumer_register_multi ==
  /\ pc = "reg"
  /\ \E a \in RegisterArgs :
       /\ a.lib = "ok" => consumer_count < MaxConsumers
       /\ args' = a
       /\ IF a.client = "NULL" \/ a.topics_ptr = "NULL" \/ topic_count(a) = 0
             \/ a.config = "NULL" \/ a.handler = 0
          THEN /\ result' = [ret |-> "FRAMEWORK_ERROR_NULL_PTR"]
               /\ UNCHANGED <<pc, kc>>
          ELSE IF \E j \in 1 .. topic_count(a) : a.topics[j] = "NULL"
          THEN /\ result' = [ret |-> "none"]
               /\ pc' = "crashed"
               /\ UNCHANGED kc
          ELSE IF a.lib \in {"conf_rejected", "auth_invalid", "rd_kafka_new_failed"}
          THEN /\ result' = [ret |-> "FRAMEWORK_ERROR_INVALID"]
               /\ UNCHANGED <<pc, kc>>
          ELSE IF a.lib = "subscribe_failed"
          THEN \/ /\ result' = [ret |-> "FRAMEWORK_ERROR_INVALID"]
                  /\ UNCHANGED <<pc, kc>>
               \/ /\ result' = [ret |-> "none"]
                  /\ pc' = "crashed"
                  /\ UNCHANGED kc
          ELSE /\ result' = [ret |-> "FRAMEWORK_SUCCESS"]
               /\ kc' = [kc EXCEPT !.consumers =
                           Append(@, [NewConsumer EXCEPT !.handler = a.handler,
                                                         !.user_data = a.handler,
                                                         !.topics = a.topics])]
               /\ UNCHANGED pc
  /\ UNCHANGED <<app, g_app, loc, srv, conns, open_fds, ep, net, backlog, events, now,
                 budget, life, hist, wk, broker, klog, calls, routes, static, response,
                 h2, producer>>

InitRegister == InitLib /\ pc = "reg"
SpecRegister == InitRegister /\ [][kafka_consumer_register_multi]_vars

TopicSet(topics) == {topics[j] : j \in 1 .. Len(topics)}

\* C35: a registration call that fails returns its error with the client's
\* registration list and every existing registration unchanged; a call that
\* succeeds appends exactly one registration whose topic set is the given
\* topics, and no registration's topics change afterwards.
RegistrationFrame ==
  [][pc = "reg" =>
       /\ pc' = "reg"
       /\ result'.ret # "none"
       /\ IF result'.ret = "FRAMEWORK_SUCCESS"
          THEN /\ Len(kc'.consumers) = consumer_count + 1
               /\ SubSeq(kc'.consumers, 1, consumer_count) = kc.consumers
               /\ TopicSet(kc'.consumers[consumer_count + 1].topics) = TopicSet(args'.topics)
          ELSE kc' = kc]_vars

(* ----------------------------- kafka_client_destroy --------------------- *)
\* fault: the registrations are released without stopping the client
kafka_client_destroy_unstopped ==
  /\ pc = "drv"
  /\ pc' = "kd_loop"
  /\ loc' = [NoLoc EXCEPT !.call = "destroy"]
  /\ UNCHANGED <<app, g_app, srv, conns, open_fds, ep, net, backlog, events, now,
                 budget, life, lib_vars, hist, kc, wk, broker, klog, calls>>

\* kafka_client_destroy up to its loop: a running client is stopped first
kafka_client_destroy ==
  /\ pc = "drv"
  /\ IF kc.running = 1
       THEN /\ pc' = "kstop_entry"
            /\ loc' = [NoLoc EXCEPT !.kret = "destroy"]
       ELSE /\ pc' = "kd_loop"
            /\ loc' = [NoLoc EXCEPT !.call = "destroy"]
  /\ UNCHANGED <<app, g_app, srv, conns, open_fds, ep, net, backlog, events, now,
                 budget, life, lib_vars, hist, kc, wk, broker, klog, calls>>

\* one round of the destroy loop (loc.ki registrations are released already):
\* the topic list, the broker handle, the topic copies and the registration;
\* after the last one the array, the producer and the client
consumer_free ==
  /\ pc = "kd_loop"
  /\ IF loc.ki >= consumer_count
       THEN /\ pc' = "destroyed"
            /\ UNCHANGED <<loc, kc>>
       ELSE /\ pc' = "kd_loop"
            /\ loc' = [loc EXCEPT !.ki = @ + 1]
            /\ kc' = [kc EXCEPT !.consumers[loc.ki + 1].freed = TRUE]
  /\ UNCHANGED <<app, g_app, srv, conns, open_fds, ep, net, backlog, events, now,
                 budget, life, lib_vars, hist, wk, broker, klog, calls>>

NextDestroy == NextKafka \/ kafka_client_destroy \/ consumer_free
SpecDestroy == InitKafka /\ [][NextDestroy]_vars

\* C36: kafka_client_destroy on a running client clears every worker's flag
\* and joins every worker before it releases anything: no worker polls, runs a
\* handler or reads its registration once that registration is freed.
DestroyAfterJoin ==
  \A i \in 1 .. consumer_count :
    kc.consumers[i].freed =>
      /\ wk[i].pc \in {"none", "exited"}
      /\ kc.consumers[i].thread # "live"
      /\ kc.consumers[i].running = 0
      /\ kc.running = 0

\* destroy found the client running, stopped it and released a registration
\* whose worker had handled a message
DestroyAfterJoinWitness ==
  /\ pc = "destroyed"
  /\ loc.call = "destroy"
  /\ loc.rv = "SUCCESS"
  /\ \E i \in 1 .. consumer_count :
       /\ kc.consumers[i].freed
       /\ kc.consumers[i].thread = "joined"
       /\ \E p \in Partitions : klog[i].done[p] > 0

(* --------------------------- the request buffer ------------------------- *)
\* MAX_REQUEST_SIZE (65536 in the source) scaled down; conn->buffer has this
\* many bytes
MAX_REQUEST_SIZE == 8
MaxChunk == 2
BufferBytes == {"\r", "\n", "x", "0x00"}
Chunks == UNION {[1 .. n -> BufferBytes] : n \in 1 .. MaxChunk}

\* fault: the room for the terminating byte is not kept
recv_len_whole(buffer_used) == MAX_REQUEST_SIZE - buffer_used

\* the length handle_client_data passes to recv
recv_len(buffer_used) == MAX_REQUEST_SIZE - buffer_used - 1

\* process_http_request on a buffer of the given size: as process_http_request
\* above, and "too_large" when no blank line is found in a full buffer
process_request_in(buf, size) ==
  IF Len(buf) < 4 THEN "wait"
  ELSE IF ~strstr(cstr(buf), <<"\r", "\n", "\r", "\n">>)
    THEN IF Len(buf) >= size - 1 THEN "too_large" ELSE "wait"
  ELSE IF ~parse_http_request(buf) THEN "rejected"
  ELSE "answered"

NewBuffer == [buffer |-> << >>, open |-> TRUE, outcome |-> "wait", reads |-> 0,
              zero_reads |-> 0, overrun |-> FALSE]

\* handle_client_data on a readable connection whose peer has sent chunk: recv
\* takes at most recv_len bytes of it (none when the length is 0, which the
\* code reads as the peer having closed), buffer_used grows, the terminating
\* byte is written at buffer[buffer_used], then process_http_request
read_request ==
  /\ pc = "buf"
  /\ result.open
  /\ \E chunk \in Chunks :
       LET len == recv_len(Len(result.buffer))
           bytes_read == Min(Len(chunk), len)
           buffer == result.buffer \o SubSeq(chunk, 1, bytes_read)
           outcome == process_request_in(buffer, MAX_REQUEST_SIZE)
       IN  /\ IF bytes_read <= 0
                THEN result' = [result EXCEPT !.open = FALSE, !.outcome = "closed",
                                              !.zero_reads = @ + 1]
                ELSE result' = [result EXCEPT
                                  !.buffer = buffer,
                                  !.reads = @ + 1,
                                  !.overrun = @ \/ Len(buffer) >= MAX_REQUEST_SIZE,
                                  !.outcome = outcome,
                                  !.open = (outcome = "wait")]
  /\ UNCHANGED <<pc, args, routes, static, response, h2, producer>>
  /\ UNCHANGED not_lib

\* recv returns 0 or fails: the peer closed, or nothing to read yet
read_nothing ==
  /\ pc = "buf"
  /\ result.open
  /\ \E r \in {"EAGAIN", "closed"} :
       result' = IF r = "EAGAIN" THEN result
                 ELSE [result EXCEPT !.open = FALSE, !.outcome = "closed"]
  /\ UNCHANGED <<pc, args, routes, static, response, h2, producer>>
  /\ UNCHANGED not_lib

\* add_connection: buffer_used = 0
add_connection_buffer ==
  /\ pc = "buf_new"
  /\ pc' = "buf"
  /\ result' = NewBuffer
  /\ UNCHANGED <<args, routes, static, response, h2, producer>>
  /\ UNCHANGED not_lib

InitBuffer == InitLib /\ pc = "buf_new"
NextBuffer == add_connection_buffer \/ read_request \/ read_nothing
SpecBuffer == InitBuffer /\ [][NextBuffer]_vars

\* C37: buffer_used never exceeds MAX_REQUEST_SIZE - 1, so the terminating
\* byte stays inside the buffer, and a connection whose buffer is full is
\* closed or processed in the call that filled it: no read is attempted on a
\* full buffer.
BufferBounded ==
  pc = "buf" =>
    /\ Len(result.buffer) <= MAX_REQUEST_SIZE - 1
    /\ ~result.overrun
    /\ Len(result.buffer) = MAX_REQUEST_SIZE - 1 => ~result.open
    /\ result.zero_reads = 0

\* a request without a blank line filled the buffer over several reads and the
\* connection was closed
BufferBoundedWitness ==
  /\ pc = "buf"
  /\ Len(result.buffer) = MAX_REQUEST_SIZE - 1
  /\ result.reads >= 3
  /\ result.outcome = "too_large"
  /\ ~result.open

(* ----------------------------- module lifecycle ------------------------- *)
MaxModules == 2
ModuleNames == <<"m1", "m2", "m3">>
\* names a module may declare as dependencies; "zz" is never registered
DependencyNames == {ModuleNames[i] : i \in 1 .. MaxModules} \cup {"zz"}
DependencyLists == {<< >>} \cup {<<n>> : n \in DependencyNames}

\* module_create: state UNINITIALIZED; callbacks tells whether the four
\* callbacks are set (a null callback is skipped and counts as success)
module_create(name, dependencies, callbacks) ==
  [name |-> name, state |-> "UNINITIALIZED", dependencies |-> dependencies,
   callbacks |-> callbacks, inited |-> FALSE]

\* the module after a lifecycle call; inited records whether the module's
\* last initialisation succeeded and has not been cleaned up since
AfterCall(mod, r) ==
  [mod EXCEPT !.state = r.state,
              !.inited = IF r.state = "INITIALIZED" THEN TRUE
                         ELSE IF r.state = "UNINITIALIZED" THEN FALSE
                         ELSE @]

\* what a lifecycle call gives: the new state, the return value, whether the
\* callback was invoked
Outcome(state, ret, called) == [state |-> state, ret |-> ret, called |-> called]

\* ok is what the callback returns when it is invoked
module_initialize(mod, ok) ==
  IF mod.state # "UNINITIALIZED"
    THEN Outcome(mod.state, "FRAMEWORK_ERROR_STATE", FALSE)
  ELSE IF mod.callbacks /\ ~ok THEN Outcome("ERROR", "CALLBACK_ERROR", TRUE)
  ELSE Outcome("INITIALIZED", "FRAMEWORK_SUCCESS", mod.callbacks)

module_start(mod, ok) ==
  IF mod.state \notin {"INITIALIZED", "STOPPED"}
    THEN Outcome(mod.state, "FRAMEWORK_ERROR_STATE", FALSE)
  ELSE IF mod.callbacks /\ ~ok THEN Outcome("ERROR", "CALLBACK_ERROR", TRUE)
  ELSE Outcome("STARTED", "FRAMEWORK_SUCCESS", mod.callbacks)

\* fault: module_stop without its state check
module_stop_any(mod, ok) ==
  IF mod.callbacks /\ ~ok THEN Outcome("ERROR", "CALLBACK_ERROR", TRUE)
  ELSE Outcome("STOPPED", "FRAMEWORK_SUCCESS", mod.callbacks)

module_stop(mod, ok) ==
  IF mod.state # "STARTED"
    THEN Outcome(mod.state, "FRAMEWORK_ERROR_STATE", FALSE)
  ELSE IF mod.callbacks /\ ~ok THEN Outcome("ERROR", "CALLBACK_ERROR", TRUE)
  ELSE Outcome("STOPPED", "FRAMEWORK_SUCCESS", mod.callbacks)

\* module_cleanup has no state check; a failing callback leaves the state
module_cleanup(mod, ok) ==
  IF mod.callbacks /\ ~ok THEN Outcome(mod.state, "CALLBACK_ERROR", TRUE)
  ELSE Outcome("UNINITIALIZED", "FRAMEWORK_SUCCESS", mod.callbacks)

\* application_get_module: index of the first module of that name, 0 for NULL
application_get_module(modules, name) ==
  IF \E i \in 1 .. Len(modules) : modules[i].name = name
    THEN CHOOSE i \in 1 .. Len(modules) :
           modules[i].name = name /\ \A j \in 1 .. i - 1 : modules[j].name # name
    ELSE 0

\* the dependency check of application_initialize_modules for one module
dependencies_ready(modules, mod) ==
  \A j \in 1 .. Len(mod.dependencies) :
    LET dep == application_get_module(modules, mod.dependencies[j])
    IN  dep # 0 /\ modules[dep].state # "UNINITIALIZED"

\* the loop of application_initialize_modules from module i on; oks[i] is what
\* module i's callback returns; done lists the modules initialised by the call
RECURSIVE initialize_modules_from(_, _, _, _)
initialize_modules_from(modules, i, oks, done) ==
  IF i > Len(modules)
    THEN [modules |-> modules, ret |-> "FRAMEWORK_SUCCESS", done |-> done, at |-> i]
  ELSE IF ~dependencies_ready(modules, modules[i])
    THEN [modules |-> modules, ret |-> "FRAMEWORK_ERROR_DEPENDENCY", done |-> done, at |-> i]
  ELSE LET r == module_initialize(modules[i], oks[i])
           after == [modules EXCEPT ![i] = AfterCall(@, r)]
       IN  IF r.ret # "FRAMEWORK_SUCCESS"
             THEN [modules |-> after, ret |-> r.ret, done |-> done, at |-> i]
             ELSE initialize_modules_from(after, i + 1, oks, Append(done, i))

not_application == <<g_app, pc, loc, srv, conns, open_fds, ep, net, backlog, events, now,
                     budget, life, hist, kc, wk, broker, klog, calls, routes, static,
                     response, h2, producer>>

\* the effect of a lifecycle function, called on module m by the module's
\* owner, whose outcome is r
ModuleCall(fn, m, ok, r) ==
  /\ app' = [app EXCEPT !.modules[m] = AfterCall(@, r)]
  /\ args' = [fn |-> fn, m |-> m, ok |-> ok]
  /\ result' = [ret |-> r.ret, called |-> r.called, done |-> << >>, at |-> 0]

call_module_initialize ==
  /\ pc = "modules"
  /\ \E m \in 1 .. Len(app.modules), ok \in BOOLEAN :
       ModuleCall("module_initialize", m, ok, module_initialize(app.modules[m], ok))
  /\ UNCHANGED not_application

call_module_start ==
  /\ pc = "modules"
  /\ \E m \in 1 .. Len(app.modules), ok \in BOOLEAN :
       ModuleCall("module_start", m, ok, module_start(app.modules[m], ok))
  /\ UNCHANGED not_application

call_module_stop ==
  /\ pc = "modules"
  /\ \E m \in 1 .. Len(app.modules), ok \in BOOLEAN :
       ModuleCall("module_stop", m, ok, module_stop(app.modules[m], ok))
  /\ UNCHANGED not_application

call_module_cleanup ==
  /\ pc = "modules"
  /\ \E m \in 1 .. Len(app.modules), ok \in BOOLEAN :
       ModuleCall("module_cleanup", m, ok, module_cleanup(app.modules[m], ok))
  /\ UNCHANGED not_application

application_initialize_modules ==
  /\ pc = "modules"
  /\ \E oks \in [1 .. Len(app.modules) -> BOOLEAN] :
       LET r == initialize_modules_from(app.modules, 1, oks, << >>)
       IN  /\ app' = [app EXCEPT !.modules = r.modules]
           /\ args' = [fn |-> "application_initialize_modules", m |-> 0, ok |-> TRUE]
           /\ result' = [ret |-> r.ret, called |-> FALSE, done |-> r.done, at |-> r.at]
  /\ UNCHANGED not_application

\* applications with their modules registered, nothing initialised
Applications ==
  {[running |-> 0, http |-> FALSE, kafka |-> FALSE, initialized |-> 0,
    modules |-> [i \in 1 .. n |-> module_create(ModuleNames[i], deps[i], cbs[i])],
    services |-> << >>] :
     n \in {MaxModules}, deps \in [1 .. MaxModules -> DependencyLists],
     cbs \in [1 .. MaxModules -> BOOLEAN]}

InitModules ==
  /\ InitCommon
  /\ calls = 0
  /\ budget = 0
  /\ kc = [running |-> 0, consumers |-> << >>]
  /\ pc = "modules"
  /\ app \in Applications

NextModules ==
  \/ call_module_initialize \/ call_module_start \/ call_module_stop
  \/ call_module_cleanup \/ application_initialize_modules

SpecModules == InitModules /\ [][NextModules]_vars

\* the state changes of one lifecycle call that the state machine allows
AllowedChange(fn, s, t) ==
  \/ fn = "module_initialize" /\ s = "UNINITIALIZED" /\ t = "INITIALIZED"
  \/ fn = "module_start" /\ s \in {"INITIALIZED", "STOPPED"} /\ t = "STARTED"
  \/ fn = "module_stop" /\ s = "STARTED" /\ t = "STOPPED"
  \/ fn = "module_cleanup" /\ t = "UNINITIALIZED"

InState(fn, s) ==
  \/ fn = "module_initialize" /\ s = "UNINITIALIZED"
  \/ fn = "module_start" /\ s \in {"INITIALIZED", "STOPPED"}
  \/ fn = "module_stop" /\ s = "STARTED"
  \/ fn = "module_cleanup"

\* C38: a module's state changes only along UNINITIALIZED -> INITIALIZED
\* (module_initialize), INITIALIZED or STOPPED -> STARTED (module_start),
\* STARTED -> STOPPED (module_stop), to ERROR when the invoked callback fails,
\* and to UNINITIALIZED on a successful module_cleanup; a lifecycle call made in
\* any other state returns the state error, invokes no callback and leaves the
\* state unchanged.
ModuleStateMachine ==
  [][\A m \in 1 .. MaxModules :
       LET s == app.modules[m].state
           t == app'.modules[m].state
           fn == args'.fn
       IN  IF fn = "application_initialize_modules"
             THEN t # s => (s = "UNINITIALIZED" /\ t \in {"INITIALIZED", "ERROR"})
           ELSE IF args'.m # m THEN t = s
           ELSE IF ~InState(fn, s)
             THEN /\ t = s
                  /\ result'.ret = "FRAMEWORK_ERROR_STATE"
                  /\ ~result'.called
           ELSE IF result'.ret = "FRAMEWORK_SUCCESS"
             THEN AllowedChange(fn, s, t)
           ELSE /\ result'.called
                /\ ~args'.ok
                /\ t = (IF fn = "module_cleanup" THEN s ELSE "ERROR")]_vars

\* module_stop was called on a module that was not started: state error, no
\* callback, while the other module had been through start and stop
ModuleStateMachineWitness ==
  /\ pc = "modules"
  /\ args # << >>
  /\ args.fn = "module_stop"
  /\ result.ret = "FRAMEWORK_ERROR_STATE"
  /\ \E m, k \in 1 .. MaxModules :
       /\ m = args.m
       /\ app.modules[m].state = "INITIALIZED"
       /\ app.modules[m].callbacks
       /\ app.modules[k].state = "STOPPED"

\* C39: application_initialize_modules initialises a module only after every
\* dependency it declares is registered and has been initialised; when a
\* dependency is missing or uninitialised it returns the dependency error and
\* that module and every module registered after it are left as they were.
DependenciesFirst ==
  [][args'.fn = "application_initialize_modules" =>
       /\ \A k \in 1 .. Len(result'.done) :
            LET i == result'.done[k]
                mod == app.modules[i]
            IN  \A j \in 1 .. Len(mod.dependencies) :
                  LET dep == application_get_module(app.modules, mod.dependencies[j])
                  IN  /\ dep # 0
                      /\ \/ app.modules[dep].inited
                         \/ \E h \in 1 .. k - 1 : result'.done[h] = dep
       /\ result'.ret = "FRAMEWORK_ERROR_DEPENDENCY" =>
            \A i \in result'.at .. Len(app.modules) : app'.modules[i] = app.modules[i]]_vars

(* --------------------------- application lifecycle ---------------------- *)
MaxServices == 1

\* service_controller_create: state UNINITIALIZED
service_controller_create(callbacks) == [state |-> "UNINITIALIZED", callbacks |-> callbacks]

service_controller_initialize(service, ok) ==
  IF service.state # "UNINITIALIZED"
    THEN Outcome(service.state, "FRAMEWORK_ERROR_STATE", FALSE)
  ELSE IF service.callbacks /\ ~ok THEN Outcome("ERROR", "CALLBACK_ERROR", TRUE)
  ELSE Outcome("INITIALIZED", "FRAMEWORK_SUCCESS", service.callbacks)

service_controller_start(service, ok) ==
  IF service.state \notin {"INITIALIZED", "STOPPED"}
    THEN Outcome(service.state, "FRAMEWORK_ERROR_STATE", FALSE)
  ELSE IF service.callbacks /\ ~ok THEN Outcome("ERROR", "CALLBACK_ERROR", TRUE)
  ELSE Outcome("RUNNING", "FRAMEWORK_SUCCESS", service.callbacks)

service_controller_stop(service, ok) ==
  IF service.state # "RUNNING"
    THEN Outcome(service.state, "FRAMEWORK_ERROR_STATE", FALSE)
  ELSE IF service.callbacks /\ ~ok THEN Outcome("ERROR", "CALLBACK_ERROR", TRUE)
  ELSE Outcome("STOPPED", "FRAMEWORK_SUCCESS", service.callbacks)

\* application_initialize_services / application_start_services from service i
\* on: the first failure is returned
RECURSIVE initialize_services_from(_, _, _)
initialize_services_from(services, i, oks) ==
  IF i > Len(services) THEN [services |-> services, ret |-> "FRAMEWORK_SUCCESS"]
  ELSE LET r == service_controller_initialize(services[i], oks[i])
           after == [services EXCEPT ![i].state = r.state]
       IN  IF r.ret # "FRAMEWORK_SUCCESS" THEN [services |-> after, ret |-> r.ret]
           ELSE initialize_services_from(after, i + 1, oks)

RECURSIVE start_services_from(_, _, _)
start_services_from(services, i, oks) ==
  IF i > Len(services) THEN [services |-> services, ret |-> "FRAMEWORK_SUCCESS"]
  ELSE LET r == service_controller_start(services[i], oks[i])
           after == [services EXCEPT ![i].state = r.state]
       IN  IF r.ret # "FRAMEWORK_SUCCESS" THEN [services |-> after, ret |-> r.ret]
           ELSE start_services_from(after, i + 1, oks)

\* application_start_modules from module i on
RECURSIVE start_modules_from(_, _, _)
start_modules_from(modules, i, oks) ==
  IF i > Len(modules) THEN [modules |-> modules, ret |-> "FRAMEWORK_SUCCESS"]
  ELSE LET r == module_start(modules[i], oks[i])
           after == [modules EXCEPT ![i] = AfterCall(@, r)]
       IN  IF r.ret # "FRAMEWORK_SUCCESS" THEN [modules |-> after, ret |-> r.ret]
           ELSE start_modules_from(after, i + 1, oks)

\* application_stop_modules / application_stop_services: every entry is
\* stopped, the return values are dropped (the order does not show here)
application_stop_modules(modules, oks) ==
  [i \in 1 .. Len(modules) |-> AfterCall(modules[i], module_stop(modules[i], oks[i]))]

application_stop_services(services, oks) ==
  [i \in 1 .. Len(services) |->
     [services[i] EXCEPT !.state = service_controller_stop(services[i], oks[i]).state]]

\* what the callbacks of one call return: one answer for each module and
\* each service
CallbackResults ==
  [modules : [1 .. MaxModules -> BOOLEAN], services : [1 .. MaxServices -> BOOLEAN]]

Returned(fn, ret) ==
  /\ args' = [fn |-> fn, m |-> 0, ok |-> TRUE]
  /\ result' = [ret |-> ret, called |-> FALSE, done |-> << >>, at |-> 0]

application_initialize ==
  /\ pc = "application"
  /\ \E oks \in CallbackResults :
       IF app.initialized = 1
         THEN /\ Returned("application_initialize", "FRAMEWORK_ERROR_STATE")
              /\ app' = app
       ELSE LET m == initialize_modules_from(app.modules, 1, oks.modules, << >>)
                sv == initialize_services_from(app.services, 1, oks.services)
            IN  IF m.ret # "FRAMEWORK_SUCCESS"
                  THEN /\ Returned("application_initialize", m.ret)
                       /\ app' = [app EXCEPT !.modules = m.modules]
                ELSE IF sv.ret # "FRAMEWORK_SUCCESS"
                  THEN /\ Returned("application_initialize", sv.ret)
                       /\ app' = [app EXCEPT !.modules = m.modules, !.services = sv.services]
                ELSE /\ Returned("application_initialize", "FRAMEWORK_SUCCESS")
                     /\ app' = [app EXCEPT !.modules = m.modules, !.services = sv.services,
                                           !.initialized = 1]
  /\ UNCHANGED not_application

application_start ==
  /\ pc = "application"
  /\ \E oks \in CallbackResults :
       IF app.initialized = 0 \/ app.running = 1
         THEN /\ Returned("application_start", "FRAMEWORK_ERROR_STATE")
              /\ app' = app
       ELSE LET m == start_modules_from(app.modules, 1, oks.modules)
                sv == start_services_from(app.services, 1, oks.services)
            IN  IF m.ret # "FRAMEWORK_SUCCESS"
                  THEN /\ Returned("application_start", m.ret)
                       /\ app' = [app EXCEPT !.modules = m.modules]
                ELSE IF sv.ret # "FRAMEWORK_SUCCESS"
                  THEN /\ Returned("application_start", sv.ret)
                       /\ app' = [app EXCEPT !.modules = m.modules, !.services = sv.services]
                ELSE /\ Returned("application_start", "FRAMEWORK_SUCCESS")
                     /\ app' = [app EXCEPT !.modules = m.modules, !.services = sv.services,
                                           !.running = 1]
  /\ UNCHANGED not_application

\* the body of application_stop on a running application
Stopped(a, oks) ==
  [a EXCEPT !.services = application_stop_services(a.services, oks.services),
            !.modules = application_stop_modules(a.modules, oks.modules),
            !.running = 0]

application_stop ==
  /\ pc = "application"
  /\ \E oks \in CallbackResults :
       IF app.running = 0
         THEN /\ Returned("application_stop", "FRAMEWORK_ERROR_STATE")
              /\ app' = app
         ELSE /\ Returned("application_stop", "FRAMEWORK_SUCCESS")
              /\ app' = Stopped(app, oks)
  /\ UNCHANGED not_application

\* application_cleanup: application_stop when running, the cleanup functions,
\* initialized = 0
application_cleanup_call ==
  /\ pc = "application"
  /\ \E oks \in CallbackResults :
       /\ Returned("application_cleanup", "FRAMEWORK_SUCCESS")
       /\ app' = [(IF app.running = 1 THEN Stopped(app, oks) ELSE app)
                    EXCEPT !.initialized = 0]
  /\ UNCHANGED not_application

ApplicationsWithServices ==
  {[a EXCEPT !.services = [i \in 1 .. MaxServices |-> service_controller_create(cbs[i])]] :
     a \in Applications, cbs \in [1 .. MaxServices -> BOOLEAN]}

InitApplication ==
  /\ InitCommon
  /\ calls = 0
  /\ budget = 0
  /\ kc = [running |-> 0, consumers |-> << >>]
  /\ pc = "application"
  /\ app \in ApplicationsWithServices

NextApplication ==
  \/ application_initialize \/ application_start \/ application_stop
  \/ application_cleanup_call

SpecApplication == InitApplication /\ [][NextApplication]_vars

\* C40: after any sequence of application_initialize, application_start,
\* application_stop and application_cleanup calls, whenever the running flag
\* is 0 no registered module is STARTED and no registered service is RUNNING.
NothingStartedUnlessRunning ==
  (pc = "application" /\ app.running = 0) =>
    /\ \A i \in 1 .. Len(app.modules) : app.modules[i].state # "STARTED"
    /\ \A i \in 1 .. Len(app.services) : app.services[i].state # "RUNNING"
====
